---------------------------- MODULE Spec2Model ----------------------------
(***************************************************************************)
(* Call Reconstruction Engine of CallAnalyzer                              *)
(* (src/call_analyzer/services/call_analyzer.py).                          *)
(*                                                                         *)
(* A leg (CallEvent) is a record; Python strings are TLA+ strings and the  *)
(* string operations of the code (substring test, startswith, split,       *)
(* lstrip, re.search) are computed character by character.  Python's None  *)
(* is the value None below; an operation the interpreter refuses on None   *)
(* raises, and a raise is an outcome of its own, never a value.            *)
(***************************************************************************)
EXTENDS Integers, Sequences, FiniteSets, TLC

VARIABLES internal_numbers,   \* CallAnalyzer.internal_numbers
          reference_numbers,  \* CallAnalyzer.reference_numbers
          events,             \* the leg list handed to analyze_call
          ret,                \* what that analyze_call did: Call, None or a raise
          df,                 \* the rows given to process_dataframe
          todo,               \* correlation ids the groupby loop has still to visit
          calls,              \* process_dataframe's result list
          pc                  \* "call" | "batch" | "done" | "raised"

vars == <<internal_numbers, reference_numbers, events, ret, df, todo, calls, pc>>

----------------------------------------------------------------------------
(* Python values *)

\* None, for the optional string fields of a leg and of a Call.
None == "<None>"

\* bool(s) of an optional string.
Truthy(s) == s # None /\ s # ""

\* name = e; Body(name): Body applied to the value of e, computed once.
With(e, Body(_)) == CHOOSE r \in {Body(x) : x \in {e}} : TRUE

\* a or b
OrElse(a, b) == With(a, LAMBDA x : IF Truthy(x) THEN x ELSE b)

\* A value returned, or an exception raised.
Ok(v) == [raised |-> FALSE, val |-> v]
Raise(exc) == [raised |-> TRUE, exc |-> exc]

Min(S) == With(S, LAMBDA T : CHOOSE x \in T : \A y \in T : x <= y)

\* s[i-1:j], the characters i..j of s that exist
Slice(s, i, j) ==
    With(IF j > Len(s) THEN Len(s) ELSE j,
         LAMBDA hi : IF i > hi THEN "" ELSE SubSeq(s, i, hi))

\* sub in s, for strings
Contains(s, sub) ==
    \E i \in 1..(Len(s) - Len(sub) + 1) : SubSeq(s, i, i + Len(sub) - 1) = sub

\* s.startswith(p)
StartsWith(s, p) == Len(s) >= Len(p) /\ SubSeq(s, 1, Len(p)) = p

\* The first position from i on where s has a character outside chars (keep
\* TRUE) or inside chars (keep FALSE); Len(s) + 1 if there is none.
RunEnd(s, i, chars, keep) ==
    Min({Len(s) + 1} \cup {j \in i..Len(s) : (SubSeq(s, j, j) \in chars) # keep})

\* s.split(sep)[0], sep one character
SplitFirst(s, sep) == Slice(s, 1, RunEnd(s, 1, {sep}, FALSE) - 1)

\* s.lstrip(ch)
LStrip(s, ch) == Slice(s, RunEnd(s, 1, {ch}, TRUE), Len(s))

\* sep.join(items)
RECURSIVE Join(_, _)
Join(items, sep) ==
    IF items = <<>> THEN ""
    ELSE IF Len(items) = 1 THEN items[1]
    ELSE items[1] \o sep \o Join(Tail(items), sep)

Digits == {"0", "1", "2", "3", "4", "5", "6", "7", "8", "9"}

----------------------------------------------------------------------------
(* Channel Decoder *)

\* The positions where s holds the text pre.
Occurrences(s, pre) ==
    {i \in 1..(Len(s) - Len(pre) + 1) : SubSeq(s, i, i + Len(pre) - 1) = pre}

\* re.search(tech + r'/(\d+)-', channel): the capture of the leftmost match, None
\* if none.  A match at i is the prefix, one digit or more, then "-".
SearchTechDigits(tech, channel) ==
    With(Len(tech) + 1, LAMBDA n :
    With({i \in Occurrences(channel, tech \o "/") :
            With(RunEnd(channel, i + n, Digits, TRUE), LAMBDA end :
                 end > i + n /\ Slice(channel, end, end) = "-")},
         LAMBDA starts :
            IF starts = {} THEN None
            ELSE With(Min(starts), LAMBDA m :
                 Slice(channel, m + n, RunEnd(channel, m + n, Digits, TRUE) - 1))))

\* re.search(r'Local/([^@]+)@', channel): a match at i is the prefix, one
\* character or more other than "@", then "@".
SearchLocal(channel) ==
    With({i \in Occurrences(channel, "Local/") :
            With(RunEnd(channel, i + 6, {"@"}, FALSE), LAMBDA end :
                 end > i + 6 /\ end <= Len(channel))},
         LAMBDA starts :
            IF starts = {} THEN None
            ELSE With(Min(starts), LAMBDA m :
                 Slice(channel, m + 6, RunEnd(channel, m + 6, {"@"}, FALSE) - 1)))

\* The patterns list of lines 50-56, in the order the loop tries it.
patterns == <<"PJSIP", "Local", "SIP", "IAX2">>

PatternSearch(p, channel) ==
    IF p = "Local" THEN SearchLocal(channel) ELSE SearchTechDigits(p, channel)

\* The loop of lines 58-62 from pattern k on: the first match wins.
RECURSIVE FirstMatch(_, _)
FirstMatch(k, channel) ==
    IF k > Len(patterns) THEN None
    ELSE With(PatternSearch(patterns[k], channel), LAMBDA match :
              IF match # None THEN LStrip(match, "9") ELSE FirstMatch(k + 1, channel))

\* CallAnalyzer._extract_number_from_channel
_extract_number_from_channel(channel) ==
    IF ~Truthy(channel) THEN None ELSE FirstMatch(1, channel)

----------------------------------------------------------------------------
(* Leg Classifier *)

\* any(cond(e) for e in evs), where evaluating cond on a leg with Bad(e) raises
\* TypeError: the generator stops at the first leg that raises or is true.
AnyLeg(evs, Cond(_), Bad(_)) ==
    With({i \in 1..Len(evs) : Bad(evs[i]) \/ Cond(evs[i])}, LAMBDA stop :
         IF stop = {} THEN Ok(FALSE)
         ELSE IF Bad(evs[Min(stop)]) THEN Raise("TypeError")
         ELSE Ok(TRUE))

\* [e for e in evs if keep(e)]
Filter(evs, Keep(_)) == SelectSeq(evs, Keep)

\* sum(e.billsec for e in evs)
RECURSIVE SumBillsec(_)
SumBillsec(evs) ==
    IF evs = <<>> THEN 0 ELSE Head(evs).billsec + SumBillsec(Tail(evs))

\* 'Local/0' in e.channel and e.context == 'from-internal'
ForwardLeg(e) == Contains(e.channel, "Local/0") /\ e.context = "from-internal"
ForwardLegRaises(e) == e.channel = None

\* e.context == 'ext-group' and 'Local/' in e.dstchannel
GroupLeg(e) == e.context = "ext-group" /\ Contains(e.dstchannel, "Local/")
GroupLegRaises(e) == e.context = "ext-group" /\ e.dstchannel = None

\* CallAnalyzer._is_internal_number
_is_internal_number(number) == number \in internal_numbers

\* CallAnalyzer._check_if_forward
_check_if_forward(evs) == AnyLeg(evs, ForwardLeg, ForwardLegRaises)

\* The comprehension of lines 87 and 197: every leg's channel is searched.
ForwardLegs(evs) ==
    IF \E i \in 1..Len(evs) : ForwardLegRaises(evs[i]) THEN Raise("TypeError")
    ELSE Ok(Filter(evs, ForwardLeg))

\* CallAnalyzer._get_forward_call_events
_get_forward_call_events(evs) ==
    With(_check_if_forward(evs), LAMBDA fwd :
         IF fwd.raised THEN fwd
         ELSE IF fwd.val THEN ForwardLegs(evs)
         ELSE Ok(<<>>))

\* CallAnalyzer._check_if_group_call
_check_if_group_call(evs) == AnyLeg(evs, GroupLeg, GroupLegRaises)

----------------------------------------------------------------------------
(* Configuration *)

\* bool(self.reference_numbers): neither None nor the empty list
HasReferenceNumbers == reference_numbers.given /\ reference_numbers.items # <<>>

\* self.reference_numbers and len(self.reference_numbers) == 1
SingleReferenceMode == HasReferenceNumbers /\ Len(reference_numbers.items) = 1

\* x in self.reference_numbers
InReferenceNumbers(x) ==
    \E i \in 1..Len(reference_numbers.items) : reference_numbers.items[i] = x

----------------------------------------------------------------------------
(* Status Resolver *)

\* The leg test of lines 142-144.
StatusRefLeg(event) ==
    \/ InReferenceNumbers(OrElse(_extract_number_from_channel(event.channel), event.src))
    \/ InReferenceNumbers(OrElse(_extract_number_from_channel(event.dstchannel), event.dst))

\* The loop of lines 141-148: the running status after the legs from i on.
RECURSIVE StatusScan(_, _, _)
StatusScan(evs, i, status) ==
    IF i > Len(evs) THEN status
    ELSE IF StatusRefLeg(evs[i])
         THEN IF evs[i].disposition = "ANSWERED" THEN "ANSWERED"
              ELSE StatusScan(evs, i + 1, evs[i].disposition)
         ELSE StatusScan(evs, i + 1, status)

\* GeneralStatus with NO ANSWER tested before BUSY and CONGESTION.
GeneralStatusNoAnswerFirst(evs) ==
    IF \E i \in 1..Len(evs) : evs[i].disposition = "ANSWERED" THEN "ANSWERED"
    ELSE IF \E i \in 1..Len(evs) : evs[i].disposition = "NO ANSWER" THEN "NO ANSWER"
    ELSE IF \E i \in 1..Len(evs) : evs[i].disposition = "BUSY" THEN "BUSY"
    ELSE IF \E i \in 1..Len(evs) : evs[i].disposition = "CONGESTION" THEN "CONGESTION"
    ELSE "FAILED"

\* The general case of lines 150-161.
GeneralStatus(evs) ==
    IF \E i \in 1..Len(evs) : evs[i].disposition = "ANSWERED" THEN "ANSWERED"
    ELSE IF \E i \in 1..Len(evs) : evs[i].disposition = "BUSY" THEN "BUSY"
    ELSE IF \E i \in 1..Len(evs) : evs[i].disposition = "CONGESTION" THEN "CONGESTION"
    ELSE IF \E i \in 1..Len(evs) : evs[i].disposition = "NO ANSWER" THEN "NO ANSWER"
    ELSE "FAILED"

\* ReferenceStatus without the forward case of lines 138-139.
ReferenceStatusWithoutForward(evs) ==
    With(_check_if_forward(evs), LAMBDA fwd :
         IF fwd.raised THEN fwd
         ELSE Ok(StatusScan(evs, 1, "NO ANSWER")))

\* The single-reference case of lines 136-148.
ReferenceStatus(evs) ==
    With(_check_if_forward(evs), LAMBDA fwd :
         IF fwd.raised THEN fwd
         ELSE IF fwd.val
              THEN Ok(IF \E i \in 1..Len(evs) : Contains(evs[i].disposition, "ANSWERED")
                      THEN "ANSWERED" ELSE "NO ANSWER")
         ELSE Ok(StatusScan(evs, 1, "NO ANSWER")))

\* CallAnalyzer._get_call_status
_get_call_status(evs) ==
    IF SingleReferenceMode THEN ReferenceStatus(evs) ELSE Ok(GeneralStatus(evs))

----------------------------------------------------------------------------
(* Duration Resolver *)

\* BillsecRefLeg matched on the resolved source only.
BillsecRefLegSourceOnly(event) ==
    InReferenceNumbers(OrElse(_extract_number_from_channel(event.channel), event.src))

\* BillsecRefLeg with the destination always decoded from the channel, as the
\* status resolver does.
BillsecRefLegAlwaysDecoded(event) ==
    \/ InReferenceNumbers(OrElse(_extract_number_from_channel(event.channel), event.src))
    \/ InReferenceNumbers(OrElse(_extract_number_from_channel(event.dstchannel), event.dst))

\* The leg test of lines 185-190.
BillsecRefLeg(event) ==
    \/ InReferenceNumbers(OrElse(_extract_number_from_channel(event.channel), event.src))
    \/ InReferenceNumbers(
         OrElse(IF ~(Truthy(event.dstchannel) /\ Contains(event.dstchannel, "Local/0"))
                THEN _extract_number_from_channel(event.dstchannel)
                ELSE event.dst,
                event.dst))

\* not (e.context == 'ext-group' and 'Local/' in e.dstchannel)
NotGroupLeg(e) == ~GroupLeg(e)

\* The single-reference case of lines 176-193.
ReferenceBillsec(evs) ==
    With(_check_if_forward(evs), LAMBDA fwd :
         IF fwd.raised THEN fwd
         ELSE With(IF fwd.val THEN _check_if_group_call(evs) ELSE Ok(FALSE), LAMBDA grp :
              IF grp.raised THEN grp
              ELSE IF grp.val THEN Ok(SumBillsec(evs))
              ELSE Ok(SumBillsec(Filter(evs, BillsecRefLeg)))))

\* The comprehension of line 200: every ext-group leg's dstchannel is searched.
NotGroupLegs(evs) ==
    IF \E i \in 1..Len(evs) : GroupLegRaises(evs[i]) THEN Raise("TypeError")
    ELSE Ok(Filter(evs, NotGroupLeg))

\* GeneralBillsec with the group policy tested before the forward policy.
GeneralBillsecGroupFirst(evs) ==
    With(_check_if_group_call(evs), LAMBDA grp :
         IF grp.raised THEN grp
         ELSE IF grp.val
              THEN With(NotGroupLegs(evs), LAMBDA legs :
                        IF legs.raised THEN legs ELSE Ok(SumBillsec(legs.val)))
         ELSE With(_check_if_forward(evs), LAMBDA fwd :
              IF fwd.raised THEN fwd
              ELSE IF fwd.val
                   THEN With(ForwardLegs(evs), LAMBDA legs :
                             IF legs.raised THEN legs ELSE Ok(SumBillsec(legs.val)))
              ELSE Ok(SumBillsec(evs))))

\* The general case of lines 195-203.
GeneralBillsec(evs) ==
    With(_check_if_forward(evs), LAMBDA fwd :
         IF fwd.raised THEN fwd
         ELSE IF fwd.val
              THEN With(ForwardLegs(evs), LAMBDA legs :
                        IF legs.raised THEN legs ELSE Ok(SumBillsec(legs.val)))
         ELSE With(_check_if_group_call(evs), LAMBDA grp :
              IF grp.raised THEN grp
              ELSE IF grp.val
                   THEN With(NotGroupLegs(evs), LAMBDA legs :
                             IF legs.raised THEN legs ELSE Ok(SumBillsec(legs.val)))
              ELSE Ok(SumBillsec(evs))))

\* _get_call_billsec whose default policy keeps the first leg's billsec only.
BillsecOfFirstLeg(evs) ==
    IF evs = <<>> THEN Ok(0)
    ELSE IF SingleReferenceMode THEN ReferenceBillsec(evs)
    ELSE With(GeneralBillsec(evs), LAMBDA total :
              IF total.raised \/ ForwardLegs(evs).val # <<>> \/ _check_if_group_call(evs).val
              THEN total
              ELSE Ok(evs[1].billsec))

\* CallAnalyzer._get_call_billsec
_get_call_billsec(evs) ==
    IF evs = <<>> THEN Ok(0)
    ELSE IF SingleReferenceMode THEN ReferenceBillsec(evs)
    ELSE GeneralBillsec(evs)

----------------------------------------------------------------------------
(* Direction *)

TrunkIn(e) == Contains(e.channel, "trunk")
TrunkInRaises(e) == e.channel = None
TrunkOut(e) == Contains(e.dstchannel, "trunk")
TrunkOutRaises(e) == e.dstchannel = None

\* TrunkDirection with the destination channels tested first.
TrunkDirectionOutboundFirst(evs) ==
    With(AnyLeg(evs, TrunkOut, TrunkOutRaises), LAMBDA outbound :
         IF outbound.raised THEN outbound
         ELSE IF outbound.val THEN Ok("sortant")
         ELSE With(AnyLeg(evs, TrunkIn, TrunkInRaises), LAMBDA inbound :
              IF inbound.raised THEN inbound
              ELSE IF inbound.val THEN Ok("entrant")
              ELSE Ok("interne")))

\* Lines 119-124: the trunk tests of a call that is not internal.
TrunkDirection(evs) ==
    With(AnyLeg(evs, TrunkIn, TrunkInRaises), LAMBDA inbound :
         IF inbound.raised THEN inbound
         ELSE IF inbound.val THEN Ok("entrant")
         ELSE With(AnyLeg(evs, TrunkOut, TrunkOutRaises), LAMBDA outbound :
              IF outbound.raised THEN outbound
              ELSE IF outbound.val THEN Ok("sortant")
              ELSE Ok("interne")))

\* CallAnalyzer._get_call_direction
_get_call_direction(evs, is_internal) ==
    IF is_internal
    THEN IF HasReferenceNumbers /\ InReferenceNumbers(evs[1].src) THEN Ok("sortant")
         ELSE IF HasReferenceNumbers /\ InReferenceNumbers(evs[1].dst) THEN Ok("entrant")
         ELSE Ok("interne")
    ELSE TrunkDirection(evs)

----------------------------------------------------------------------------
(* Click-to-call short-circuit *)

\* The marker phrase of line 220 (its accented first e written plain).
ClickToCallMarker == "Repondre pour appeler le"

\* e.cnam and marker in e.cnam
HasMarker(e) == Truthy(e.cnam) /\ Contains(e.cnam, ClickToCallMarker)

\* 'macro-dial' in e.context
MacroDialLeg(e) == Contains(e.context, "macro-dial")

\* Line 228: the first macro-dial leg, else the first leg.
MacroDialEvent(evs) ==
    With({i \in 1..Len(evs) : MacroDialLeg(evs[i])}, LAMBDA dials :
         IF dials = {} THEN evs[1] ELSE evs[Min(dials)])

\* ClickToCallSource that prefers the dial leg only for a leading "0".
ClickToCallSourceZeroOnly(first_event_src, event_macro_dial) ==
    IF StartsWith(first_event_src, "0") THEN event_macro_dial.src ELSE first_event_src

\* Lines 231-234: the click-to-call source.
ClickToCallSource(first_event_src, event_macro_dial) ==
    IF StartsWith(first_event_src, "0") \/ StartsWith(first_event_src, "+")
    THEN event_macro_dial.src
    ELSE first_event_src

\* ClickToCallDuration with the forward legs' billsec added twice.
ClickToCallDurationForwardTwice(event_macro_dial, forward_events) ==
    event_macro_dial.billsec + SumBillsec(forward_events) + SumBillsec(forward_events)

\* ClickToCallDuration without the forward legs' billsec.
ClickToCallDurationDialOnly(event_macro_dial, forward_events) == event_macro_dial.billsec

\* Lines 237-242: the dial leg's billsec plus that of every forward leg.
ClickToCallDuration(event_macro_dial, forward_events) ==
    event_macro_dial.billsec + SumBillsec(forward_events)

\* ClickToCallForward with the forward numbers in reverse order.
ClickToCallForwardReversed(forward_events) ==
    [i \in 1..Len(forward_events) |-> forward_events[Len(forward_events) + 1 - i].dst]

\* Lines 241-243: the forward-number list.
ClickToCallForward(forward_events) ==
    [i \in 1..Len(forward_events) |-> forward_events[i].dst]

\* CallAnalyzer._identify_click_to_call, on the sorted legs
_identify_click_to_call(evs) ==
    IF (\E i \in 1..Len(evs) : HasMarker(evs[i])) /\ evs # <<>>
    THEN With(OrElse(_extract_number_from_channel(evs[1].channel), evs[1].src),
              LAMBDA first_event_src :
         With(MacroDialEvent(evs), LAMBDA event_macro_dial :
         IF first_event_src = None THEN Raise("AttributeError")
         ELSE With(_get_forward_call_events(evs), LAMBDA forward_events :
              IF forward_events.raised THEN forward_events
              ELSE Ok([is_click_to_call |-> TRUE,
                       src |-> ClickToCallSource(first_event_src, event_macro_dial),
                       dst |-> evs[1].dst,
                       duration |-> ClickToCallDuration(event_macro_dial,
                                                        forward_events.val),
                       forward |-> ClickToCallForward(forward_events.val)]))))
    ELSE Ok([is_click_to_call |-> FALSE, src |-> None, dst |-> None,
             duration |-> 0, forward |-> <<>>])

----------------------------------------------------------------------------
(* Path Reconstructor *)

\* base_number of lines 276-278
base_number(number) == IF Truthy(number) THEN SplitFirst(number, " ") ELSE ""

\* path[-1] if path else ''
LastInPath(path) == IF path # <<>> THEN path[Len(path)] ELSE ""

\* add_to_path without the test against the virtual-forward marker.
add_to_path_ignoring_marker(acc, number, disposition) ==
    IF ~Truthy(number) THEN acc
    ELSE With(number \o (IF disposition = "ANSWERED" THEN " (ANSWERED)" ELSE ""),
              LAMBDA path_key :
                 IF /\ base_number(LastInPath(acc.path)) # base_number(path_key)
                    /\ path_key \notin acc.seen_path_keys
                 THEN [acc EXCEPT !.path = Append(@, path_key),
                                  !.seen_path_keys = @ \cup {path_key}]
                 ELSE acc)

\* add_to_path without the test against the last hop.
add_to_path_after_same_hop(acc, number, disposition) ==
    IF ~Truthy(number) THEN acc
    ELSE With(number \o (IF disposition = "ANSWERED" THEN " (ANSWERED)" ELSE ""),
              LAMBDA path_key :
                 IF /\ path_key \notin acc.seen_path_keys
                    /\ base_number(path_key) # acc.virtual_forward
                 THEN [acc EXCEPT !.path = Append(@, path_key),
                                  !.seen_path_keys = @ \cup {path_key}]
                 ELSE acc)

\* add_to_path that never writes the (ANSWERED) suffix.
add_to_path_without_suffix(acc, number, disposition) ==
    IF ~Truthy(number) THEN acc
    ELSE IF /\ base_number(LastInPath(acc.path)) # base_number(number)
            /\ number \notin acc.seen_path_keys
            /\ base_number(number) # acc.virtual_forward
         THEN [acc EXCEPT !.path = Append(@, number),
                          !.seen_path_keys = @ \cup {number}]
         ELSE acc

\* add_to_path of lines 280-299, on the accumulator acc (path, seen_path_keys and
\* the virtual_forward it reads); call_path_details is not part of the Call.
add_to_path(acc, number, disposition) ==
    IF ~Truthy(number) THEN acc
    ELSE With(number \o (IF disposition = "ANSWERED" THEN " (ANSWERED)" ELSE ""),
              LAMBDA path_key :
                 IF /\ base_number(LastInPath(acc.path)) # base_number(path_key)
                    /\ path_key \notin acc.seen_path_keys
                    /\ base_number(path_key) # acc.virtual_forward
                 THEN [acc EXCEPT !.path = Append(@, path_key),
                                  !.seen_path_keys = @ \cup {path_key}]
                 ELSE acc)

\* is_local of lines 303 and 330, as a truth value
IsLocal(event) == Truthy(event.dstchannel) /\ Contains(event.dstchannel, "Local/")

\* src_number of lines 304 and 331
SrcNumber(event) == OrElse(_extract_number_from_channel(event.channel), event.src)

\* dst_number of lines 305-307 and 332-334
DstNumber(event) ==
    IF IsLocal(event) THEN event.dst
    ELSE OrElse(_extract_number_from_channel(event.dstchannel), event.dst)

\* str(x) inside an f-string
Str(x) == IF x = None THEN "None" ELSE x

\* group_members[group_id] after the first pass (lines 310-315), as a set
GroupMembers(evs, group_id) ==
    {n \in {DstNumber(evs[j]) : j \in {i \in 1..Len(evs) :
                /\ evs[i].context = "ext-group"
                /\ evs[i].dst = group_id}} : Truthy(n)}

\* Lines 319-325: the item a from-internal leg puts into internal_calls.
InternalCall(event) ==
    With(DstNumber(event), LAMBDA dst_number :
         [call_id |-> Str(SrcNumber(event)) \o "_" \o Str(dst_number) \o "_"
                      \o event.timestamp,
          dst |-> dst_number,
          disposition |-> event.disposition])

\* internal_calls[item.call_id] = item: a key already there keeps its place.
PutCall(items, item) ==
    With({k \in 1..Len(items) : items[k].call_id = item.call_id}, LAMBDA at :
         IF at = {} THEN Append(items, item) ELSE [items EXCEPT ![Min(at)] = item])

\* internal_calls after the first pass (lines 318-325): the dict's items in
\* insertion order.
RECURSIVE InternalCalls(_, _, _)
InternalCalls(evs, i, items) ==
    IF i > Len(evs) THEN items
    ELSE IF evs[i].context # "from-internal" THEN InternalCalls(evs, i + 1, items)
    ELSE With(PutCall(items, InternalCall(evs[i])),
              LAMBDA next : InternalCalls(evs, i + 1, next))

\* The accumulator before the second pass (lines 267-274).
PathStart ==
    [path |-> <<>>, seen_path_keys |-> {}, virtual_forward |-> "",
     transfers_from |-> None, transfers_to |-> None,
     forwards_from |-> None, forwards_to |-> None, raised |-> FALSE]

\* SeedPath that seeds the resolved source only.
SeedPathSourceOnly(acc, event, src_number, dst_number) ==
    IF Truthy(src_number) /\ Truthy(dst_number) /\ acc.path = <<>>
    THEN add_to_path(acc, src_number, None)
    ELSE acc

\* Lines 337-341: the path is seeded with the first resolved source.
SeedPath(acc, event, src_number, dst_number) ==
    IF Truthy(src_number) /\ Truthy(dst_number) /\ acc.path = <<>>
    THEN With(add_to_path(acc, src_number, None), LAMBDA seeded :
              IF event.dst # dst_number THEN add_to_path(seeded, event.dst, None)
              ELSE seeded)
    ELSE acc

\* Lines 344-346: the resolved destination is appended.
AppendDestination(acc, event, src_number, dst_number) ==
    IF Truthy(src_number) /\ Truthy(dst_number)
    THEN add_to_path(acc, dst_number, event.disposition)
    ELSE acc

\* Lines 353-356: the from-internal legs whose channel starts with local_key.
FollowMeMatches(evs, local_key) ==
    {i \in 1..Len(evs) : /\ Truthy(evs[i].channel)
                         /\ StartsWith(evs[i].channel, local_key)
                         /\ evs[i].context = "from-internal"}

\* Lines 358-362: the follow-me leg's match sets forwards_to.
FollowMe(acc, match) ==
    With(OrElse(_extract_number_from_channel(match.dstchannel), match.dst),
         LAMBDA forwards_to :
            [add_to_path([acc EXCEPT !.forwards_to = forwards_to],
                         forwards_to, match.disposition)
                EXCEPT !.virtual_forward = forwards_to])

\* FromInternal that also records the forwarding endpoint of an answered hop.
FromInternalWithForwardsFrom(acc, event, is_local, dst_number) ==
    IF Truthy(event.channel) /\ Contains(event.channel, "Local/0")
    THEN [(IF event.disposition = "ANSWERED"
           THEN add_to_path([acc EXCEPT !.forwards_to = dst_number,
                                        !.forwards_from = SrcNumber(event)],
                            dst_number, event.disposition)
           ELSE acc)
          EXCEPT !.virtual_forward = dst_number]
    ELSE IF event.channel = None
    THEN [acc EXCEPT !.raised = TRUE]
    ELSE IF Contains(event.channel, "Local/") /\ ~is_local
            /\ ~Truthy(acc.transfers_to) /\ Truthy(dst_number)
    THEN add_to_path([acc EXCEPT !.transfers_to = dst_number],
                     dst_number, event.disposition)
    ELSE acc

\* FromInternal that records the forward target whatever the hop's disposition.
FromInternalAnyDisposition(acc, event, is_local, dst_number) ==
    IF Truthy(event.channel) /\ Contains(event.channel, "Local/0")
    THEN [add_to_path([acc EXCEPT !.forwards_to = dst_number],
                      dst_number, event.disposition)
          EXCEPT !.virtual_forward = dst_number]
    ELSE IF event.channel = None
    THEN [acc EXCEPT !.raised = TRUE]
    ELSE IF Contains(event.channel, "Local/") /\ ~is_local
            /\ ~Truthy(acc.transfers_to) /\ Truthy(dst_number)
    THEN add_to_path([acc EXCEPT !.transfers_to = dst_number],
                     dst_number, event.disposition)
    ELSE acc

\* Lines 365-374: a from-internal leg is a forward hop or an internal transfer.
FromInternal(acc, event, is_local, dst_number) ==
    IF Truthy(event.channel) /\ Contains(event.channel, "Local/0")
    THEN [(IF event.disposition = "ANSWERED"
           THEN add_to_path([acc EXCEPT !.forwards_to = dst_number],
                            dst_number, event.disposition)
           ELSE acc)
          EXCEPT !.virtual_forward = dst_number]
    ELSE IF event.channel = None
    THEN \* line 371: 'Local/' in None
         [acc EXCEPT !.raised = TRUE]
    ELSE IF Contains(event.channel, "Local/") /\ ~is_local
            /\ ~Truthy(acc.transfers_to) /\ Truthy(dst_number)
    THEN add_to_path([acc EXCEPT !.transfers_to = dst_number],
                     dst_number, event.disposition)
    ELSE acc

\* Lines 349-390: the follow-me, forward, transfer and group rules, on the
\* accumulator the two appends above left.
ContextRules(evs, acc, event, is_local, dst_number) ==
    With(IF event.context = "followme-check" /\ is_local
            /\ event.disposition = "ANSWERED"
         THEN FollowMeMatches(evs, SplitFirst(event.dstchannel, ";"))
         ELSE {},
         LAMBDA matches :
       IF matches # {} THEN FollowMe(acc, evs[Min(matches)])
       ELSE IF event.context = "from-internal"
       THEN FromInternal(acc, event, is_local, dst_number)
       ELSE IF event.context = "ext-local" /\ event.dst # dst_number
       THEN \* lines 378-380
            IF ~Truthy(acc.transfers_to)
            THEN add_to_path([acc EXCEPT !.transfers_to = dst_number],
                             dst_number, event.disposition)
            ELSE acc
       ELSE IF event.context = "ext-group"
       THEN \* lines 384-390
            IF dst_number \in GroupMembers(evs, event.dst) /\ event.disposition = "ANSWERED"
            THEN add_to_path(acc, dst_number, event.disposition)
            ELSE acc
       ELSE acc)

\* One iteration of the second pass (lines 329-390) on leg event.
PathStep(evs, acc, event) ==
    With(SrcNumber(event), LAMBDA src_number :
    With(DstNumber(event), LAMBDA dst_number :
    With(SeedPath(acc, event, src_number, dst_number), LAMBDA a1 :
    With(AppendDestination(a1, event, src_number, dst_number), LAMBDA a2 :
         ContextRules(evs, a2, event, IsLocal(event), dst_number)))))

\* The second pass from leg i on; a raise ends it.
RECURSIVE SecondPass(_, _, _)
SecondPass(evs, i, acc) ==
    IF i > Len(evs) \/ acc.raised THEN acc
    ELSE With(PathStep(evs, acc, evs[i]), LAMBDA next : SecondPass(evs, i + 1, next))

\* The missed internal calls of lines 395-399, from item k on.
RECURSIVE MissedInternal(_, _, _)
MissedInternal(items, k, acc) ==
    IF k > Len(items) THEN acc
    ELSE IF /\ items[k].disposition = "NO ANSWER"
            /\ items[k].dst \notin acc.seen_path_keys
            /\ base_number(LastInPath(acc.path)) # base_number(items[k].dst)
         THEN With(add_to_path(acc, items[k].dst, "NO ANSWER"),
                   LAMBDA next : MissedInternal(items, k + 1, next))
         ELSE MissedInternal(items, k + 1, acc)

\* CallAnalyzer._identify_actions_by_context, on the sorted legs; external_calls is
\* never filled, so the loop of lines 402-406 does nothing.
_identify_actions_by_context(evs) ==
    With(SecondPass(evs, 1, PathStart), LAMBDA acc :
        IF acc.raised THEN Raise("TypeError")
        ELSE With(InternalCalls(evs, 1, <<>>), LAMBDA internal_calls :
             With(MissedInternal(internal_calls, 1, acc), LAMBDA final :
                Ok([transfers_from |-> final.transfers_from,
                    transfers_to |-> final.transfers_to,
                    forwards_from |-> final.forwards_from,
                    forwards_to |-> final.forwards_to,
                    call_path |-> Join(final.path, " --> "),
                    hops |-> final.path]))))

----------------------------------------------------------------------------
(* Call Builder *)

\* The legs left in input order, unsorted.
InputOrder(evs) == evs

\* sorted(events, key=lambda e: e.sequence): stable, so among the legs of the
\* smallest sequence number the one that comes first in the list goes first.
RECURSIVE SortBySequence(_)
SortBySequence(evs) ==
    IF evs = <<>> THEN <<>>
    ELSE With(Min({evs[i].sequence : i \in 1..Len(evs)}), LAMBDA least :
         With(Min({i \in 1..Len(evs) : evs[i].sequence = least}), LAMBDA k :
         With(SubSeq(evs, 1, k - 1) \o SubSeq(evs, k + 1, Len(evs)), LAMBDA rest :
              <<evs[k]>> \o SortBySequence(rest))))

\* What analyze_call can do: return None, return a Call, or raise.
NoCall == [kind |-> "None"]
Raised(exc) == [kind |-> "Raise", exc |-> exc]

\* The Call of lines 432-451 (click-to-call) and 463-482 (standard).
Call(first_event, source, destination, duration, status, type, is_internal, transfers_from, transfers_to, forwards_from, forwards_to, is_click_to_call, final_path) ==
    [kind |-> "Call",
     start_time |-> first_event.timestamp,
     uniqueid |-> first_event.linkedid,
     source |-> source,
     destination |-> destination,
     duration |-> duration,
     status |-> status,
     type |-> type,
     is_internal |-> is_internal,
     transfers_from |-> transfers_from,
     transfers_to |-> transfers_to,
     forwards_from |-> forwards_from,
     forwards_to |-> forwards_to,
     is_click_to_call |-> is_click_to_call,
     final_path |-> final_path,
     original_caller_name |-> first_event.cnam]

\* Line 446: [src_ctc] + forward_numbers + [dst_ctc]
ClickToCallPath(ctc) == <<ctc.src>> \o ctc.forward \o <<ctc.dst>>

\* Lines 432-451: the click-to-call Call from ctc, the value of
\* _identify_click_to_call; the arguments are evaluated in the order written.
ClickToCallCall(evs, ctc) ==
    With(_is_internal_number(ctc.src) /\ _is_internal_number(ctc.dst), LAMBDA is_internal :
    With(_get_call_status(evs), LAMBDA status :
    IF status.raised THEN Raised(status.exc)
    ELSE With(_get_call_direction(evs, is_internal), LAMBDA type :
    IF type.raised THEN Raised(type.exc)
    ELSE With(ClickToCallPath(ctc), LAMBDA hops :
    IF \E i \in 1..Len(hops) : hops[i] = None THEN Raised("TypeError")
    ELSE Call(evs[1], ctc.src, ctc.dst, ctc.duration, status.val, type.val, is_internal,
              None, None, None, None, TRUE, Join(hops, " --> "))))))

\* Lines 453-482: validation and the standard Call.
StandardCall(evs) ==
    IF ~Truthy(evs[1].src) \/ ~Truthy(evs[1].dst) THEN NoCall
    ELSE With(_identify_actions_by_context(evs), LAMBDA actions :
    IF actions.raised THEN Raised(actions.exc)
    ELSE With(_is_internal_number(evs[1].src) /\ _is_internal_number(evs[1].dst),
              LAMBDA is_internal :
    With(_get_call_billsec(evs), LAMBDA duration :
    IF duration.raised THEN Raised(duration.exc)
    ELSE With(_get_call_status(evs), LAMBDA status :
    IF status.raised THEN Raised(status.exc)
    ELSE With(_get_call_direction(evs, is_internal), LAMBDA type :
    IF type.raised THEN Raised(type.exc)
    ELSE Call(evs[1], evs[1].src, evs[1].dst, duration.val, status.val,
              type.val, is_internal,
              actions.val.transfers_from, actions.val.transfers_to,
              actions.val.forwards_from, actions.val.forwards_to,
              FALSE, actions.val.call_path))))))

\* analyze_call that takes the click-to-call branch on the marker alone.
analyze_call_on_marker_alone(input) ==
    IF input = <<>> THEN NoCall
    ELSE With(SortBySequence(input), LAMBDA evs :
         With(_identify_click_to_call(evs), LAMBDA ctc :
            IF ctc.raised THEN Raised(ctc.exc)
            ELSE IF ctc.val.is_click_to_call
            THEN ClickToCallCall(evs, ctc.val)
            ELSE StandardCall(evs)))

\* CallAnalyzer.analyze_call
analyze_call(input) ==
    IF input = <<>> THEN NoCall
    ELSE With(SortBySequence(input), LAMBDA evs :
         With(_identify_click_to_call(evs), LAMBDA ctc :
            IF ctc.raised THEN Raised(ctc.exc)
            ELSE IF ctc.val.is_click_to_call /\ Truthy(ctc.val.src) /\ Truthy(ctc.val.dst)
            THEN ClickToCallCall(evs, ctc.val)
            ELSE StandardCall(evs)))

----------------------------------------------------------------------------
(* Batch Driver *)

\* The correlation ids a batch may hold, in the order groupby sorts its keys.
LinkedIds == <<"L1", "L2">>

\* df.groupby('linkedid'): the keys present, sorted.
GroupKeys(rows) ==
    SelectSeq(LinkedIds, LAMBDA id : \E i \in 1..Len(rows) : rows[i].linkedid = id)

\* The CallEvent list of lines 499-523 for one key: its rows, in row order.
GroupEvents(rows, id) == SelectSeq(rows, LAMBDA row : row.linkedid = id)

----------------------------------------------------------------------------
(* Inputs *)

\* Most legs in a group handed to analyze_call.
MaxLegs == 2
\* Most legs in a group where the duration policies are told apart: a forward
\* leg, a ring-group broadcast leg and a leg that is neither.
MaxPolicyLegs == 3
\* Most rows in a batch handed to process_dataframe.
MaxRows == 2
\* Largest billsec of a leg.
MaxBillsec == 1

\* A CallEvent of correlation id L1; sequence and timestamp are set per list.
Leg(src, dst, channel, dstchannel, disposition, billsec, context, cnam) ==
    [linkedid |-> "L1", sequence |-> 1, timestamp |-> "t1",
     src |-> src, dst |-> dst, channel |-> channel, dstchannel |-> dstchannel,
     disposition |-> disposition, billsec |-> billsec, context |-> context, cnam |-> cnam]

\* The internal extensions of the directory lookup.
InternalNumbers == {"101", "102", "103"}

NoReferenceNumbers == [given |-> FALSE, items |-> <<>>]
ReferenceNumbers(items) == [given |-> TRUE, items |-> items]

\* Reference-number configurations of general mode: None, [] and two entries.
GeneralModes == {NoReferenceNumbers, ReferenceNumbers(<<>>), ReferenceNumbers(<<"101", "0601">>)}

\* A caller name carrying the marker phrase.
MarkedName == ClickToCallMarker \o " 0601"

\* Sequence numbers given to a list of n legs: ascending, or descending.
Orders(n) == {[i \in 1..n |-> i], [i \in 1..n |-> n + 1 - i]}

\* The lists of at most max legs of universe U, under each numbering.
LegLists(U, max) ==
    UNION {UNION {{[i \in 1..n |-> [f[i] EXCEPT !.sequence = o[i]]] : o \in Orders(n)}
                  : f \in [1..n -> U]} : n \in 0..max}

\* Legs that decide whether a Call is built: source and destination present,
\* empty or absent, channel present or absent, with or without the marker.
BuildLegs ==
    {Leg(s, d, c, "", "ANSWERED", 1, "from-trunk", m) :
        s \in {None, "", "101"}, d \in {"", "102"},
        c \in {None, "", "PJSIP/0601-1"}, m \in {None, MarkedName}}

\* Legs of every disposition: the five named ones and one outside them.
StatusLegs ==
    {Leg("101", "102", c, "PJSIP/102-1", d, 1, "from-internal", None) :
        c \in {"PJSIP/101-1", "SIP/trunk-1"},
        d \in {"ANSWERED", "BUSY", "CONGESTION", "NO ANSWER", "FAILED", "UNANSWERED"}}

\* Legs of each kind the duration policies tell apart: a forward leg, a leg on a
\* Local/0 channel in another context, a plain leg, a ring-group broadcast leg
\* and an ext-group leg on a device channel.
DurationLegs ==
    {Leg("101", "102", k[1], k[2], "ANSWERED", b, k[3], None) :
        k \in {<<"Local/0102@x-1;2", "PJSIP/102-1", "from-internal">>,
               <<"Local/0102@x-1;2", "PJSIP/102-1", "from-trunk">>,
               <<"PJSIP/101-1", "PJSIP/102-1", "from-internal">>,
               <<"PJSIP/101-1", "Local/102@x-1;1", "ext-group">>,
               <<"PJSIP/101-1", "PJSIP/102-1", "ext-group">>},
        b \in {MaxBillsec}}
    \cup {Leg("101", "102", "PJSIP/101-1", "PJSIP/102-1", "ANSWERED", b, "from-internal", None) :
             b \in 0..MaxBillsec}

\* The single reference number of the reference-mode inputs.
ReferenceNumber == "0601"

\* Legs that involve ReferenceNumber through a raw field, through a decoded
\* channel, through both or not at all, and the forward and broadcast legs.
\* <<src, dst, channel, dstchannel, context>>
ReferenceKinds ==
    {<<"0601", "101", "", "", "from-trunk">>,
     <<"102", "101", "PJSIP/0601-1", "PJSIP/101-1", "from-trunk">>,
     <<"0601", "101", "PJSIP/102-1", "PJSIP/101-1", "from-trunk">>,
     <<"102", "0601", "PJSIP/102-1", "Local/0601@x-1;1", "from-trunk">>,
     <<"102", "103", "PJSIP/102-1", "Local/0601@x-1;1", "from-trunk">>,
     <<"102", "103", "PJSIP/102-1", "PJSIP/0601-1", "from-trunk">>,
     <<"0601", "0601", "", "", "from-trunk">>,
     <<"102", "103", "Local/0103@x-1;2", "PJSIP/103-1", "from-internal">>,
     <<"102", "600", "PJSIP/102-1", "Local/103@x-1;1", "ext-group">>}

ReferenceDurationLegs ==
    {Leg(k[1], k[2], k[3], k[4], "ANSWERED", b, k[5], None) :
        k \in ReferenceKinds, b \in 1..MaxBillsec}
    \cup {Leg("0601", "101", "", "", "NO ANSWER", 0, "from-trunk", None)}

\* Legs of single-reference mode for the bound on the duration: a leg of the
\* reference number, one matched through a "Local/0" destination channel, one
\* that does not involve it, a forward leg and a ring-group broadcast leg.
ReferenceBoundLegs ==
    {Leg(k[1], k[2], k[3], k[4], "ANSWERED", MaxBillsec, k[5], None) :
        k \in {<<"0601", "101", "", "", "from-trunk">>,
               <<"102", "0601", "PJSIP/102-1", "Local/0601@x-1;1", "from-trunk">>,
               <<"102", "101", "PJSIP/102-1", "PJSIP/101-1", "from-trunk">>,
               <<"102", "103", "Local/0103@x-1;2", "PJSIP/103-1", "from-internal">>,
               <<"102", "600", "PJSIP/102-1", "Local/103@x-1;1", "ext-group">>}}

\* Legs for the status of reference mode: one that involves ReferenceNumber, one
\* that does not, one that does through its destination channel and a forward
\* leg, under dispositions inside and outside the named ones.
ReferenceStatusLegs ==
    {Leg(k[1], k[2], k[3], k[4], d, 1, k[5], None) :
        k \in {<<"0601", "101", "", "", "from-trunk">>,
               <<"102", "101", "PJSIP/102-1", "PJSIP/101-1", "from-trunk">>,
               <<"102", "103", "PJSIP/102-1", "PJSIP/0601-1", "from-trunk">>,
               <<"102", "103", "Local/0103@x-1;2", "PJSIP/103-1", "from-internal">>},
        d \in {"ANSWERED", "NO ANSWER", "BUSY", "UNANSWERED"}}

\* Legs between internal and external endpoints over trunk and device channels,
\* a leg without destination channel, and a click-to-call pair whose Call runs
\* between two extensions although its first leg's raw source is external.
DirectionLegs ==
    {Leg(k[1], k[2], c, dc, "ANSWERED", 1, "from-trunk", None) :
        k \in {<<"0601", "102">>, <<"101", "0601">>},
        c \in {"SIP/trunk-1", "PJSIP/101-1"}, dc \in {"SIP/trunk-2", "PJSIP/102-1"}}
    \cup {Leg("101", "102", "PJSIP/101-1", "PJSIP/102-1", "ANSWERED", 1, "from-internal", None),
          Leg("101", "102", "SIP/trunk-1", "SIP/trunk-2", "ANSWERED", 1, "from-internal", None),
          Leg("0601", "102", "PJSIP/101-1", None, "ANSWERED", 1, "from-trunk", None),
          Leg("0601", "102", "", "", "ANSWERED", 1, "from-trunk", MarkedName),
          Leg("101", "102", "", "", "ANSWERED", 1, "macro-dial", None)}

\* Reference-number configurations that direction tells apart.
DirectionModes ==
    {NoReferenceNumbers, ReferenceNumbers(<<>>), ReferenceNumbers(<<"101">>),
     ReferenceNumbers(<<"102">>), ReferenceNumbers(<<"102", "101">>)}

\* The leg of scenario A (from-trunk, external source, internal destination,
\* ANSWERED) over origin and destination channels of several shapes.
ScenarioLegs ==
    {Leg("0601", "101", c, dc, "ANSWERED", b, "from-trunk", None) :
        c \in {"SIP/trunk-1", "PJSIP/555-1", ""},
        dc \in {"PJSIP/101-1", "PJSIP/102-1", None},
        b \in {MaxBillsec}}
    \cup {Leg("0601", "101", "SIP/trunk-1", "PJSIP/101-1", "ANSWERED", b, "from-trunk", None) :
             b \in 0..MaxBillsec}

\* Legs for click-to-call: sources that start with "0", with "+", with neither,
\* and an empty one, marked or not, in the macro-dial context or not; a marked
\* leg without destination, one whose channel names the source, and one with
\* neither source nor channel endpoint.
ClickToCallLegs ==
    {Leg(s, "102", "", "", "ANSWERED", 1, x, m) :
        s \in {"0601", "+33601", "101", ""},
        x \in {"macro-dial", "from-trunk"}, m \in {None, MarkedName}}
    \cup {Leg("101", "", "", "", "ANSWERED", 1, "from-trunk", MarkedName),
          Leg("101", "102", "PJSIP/0601-1", "", "ANSWERED", 1, "from-trunk", MarkedName),
          Leg(None, "102", "", "", "ANSWERED", 1, "from-trunk", MarkedName)}

\* Legs for the duration and path of click-to-call: a marked leg, one without
\* raw source, a marked leg that is a forward leg to the Call's own destination,
\* a macro-dial leg with and without billsec, forward legs to another number
\* and to no number, and a plain leg.
ClickToCallForwardLegs ==
    {Leg("101", "102", "", "", "ANSWERED", MaxBillsec, "from-trunk", MarkedName),
     Leg("", "102", "PJSIP/101-1", "", "ANSWERED", MaxBillsec, "from-trunk", MarkedName),
     Leg("101", "102", "Local/0102@x-1;2", "", "ANSWERED", MaxBillsec, "from-internal", MarkedName),
     Leg("101", "0601", "Local/0102@x-1;2", "", "ANSWERED", MaxBillsec, "from-internal", None),
     Leg("101", None, "Local/0102@x-1;2", "", "ANSWERED", MaxBillsec, "from-internal", None),
     Leg("101", "102", "PJSIP/101-1", "", "ANSWERED", MaxBillsec, "from-trunk", None)}
    \cup {Leg("103", "102", "", "", "ANSWERED", b, "macro-dial", None) : b \in {0, MaxBillsec}}

\* Legs the path rules tell apart: an answered and an unanswered trunk leg to
\* the same extension, a missed internal call, an answered and an unanswered
\* forward hop, a follow-me check, an ext-local transfer and an internal
\* transfer.  <<src, dst, channel, dstchannel, disposition, context>>
PathKinds ==
    {<<"0601", "101", "SIP/trunk-1", "PJSIP/101-1", "ANSWERED", "from-trunk">>,
     <<"0601", "101", "SIP/trunk-1", "PJSIP/101-1", "NO ANSWER", "from-trunk">>,
     <<"101", "102", "PJSIP/101-1", "PJSIP/102-1", "NO ANSWER", "from-internal">>,
     <<"101", "102", "Local/0102@x-1;2", "PJSIP/103-1", "ANSWERED", "from-internal">>,
     <<"101", "102", "Local/0102@x-1;2", "PJSIP/102-1", "NO ANSWER", "from-internal">>,
     <<"0601", "101", "SIP/trunk-1", "Local/0102@x-1;1", "ANSWERED", "followme-check">>,
     <<"0601", "101", "SIP/trunk-1", "PJSIP/103-1", "ANSWERED", "ext-local">>,
     <<"101", "102", "Local/103@x-1;2", "PJSIP/103-1", "ANSWERED", "from-internal">>}

PathLegs == {Leg(k[1], k[2], k[3], k[4], k[5], 1, k[6], None) : k \in PathKinds}

\* Channel strings the decoder tells apart: one pattern, two patterns at once,
\* captures with leading 9s, an unknown technology, the empty string and an
\* absent channel.
DecoderChannels ==
    {"PJSIP/101-1", "Local/7@x", "SIP/5-Local/7@x", "IAX2/5-Local/7@x",
     "PJSIP/5-Local/7@x", "PJSIP/9901-1", "Local/9102@x", "SIP/9-1",
     "DAHDI/1-1", "", None}

DecoderLegs ==
    {Leg("0601", "101", c, "PJSIP/102-1", "ANSWERED", 1, "from-trunk", None) :
        c \in DecoderChannels}
    \cup {Leg("0601", "101", "PJSIP/101-1", d, "ANSWERED", 1, x, None) :
             d \in {"SIP/5-Local/7@x", "DAHDI/1-1", "", None},
             x \in {"from-trunk", "ext-group"}}

\* The lists of at most max legs of universe U under every numbering, ties
\* included.
NumberedLegLists(U, max) ==
    UNION {{[i \in 1..n |-> [f[i] EXCEPT !.sequence = o[i]]] :
               f \in [1..n -> U], o \in [1..n -> 1..n]} : n \in 0..max}

\* Legs whose order shows in the result, each with its own timestamp: an
\* internal leg, a trunk leg, a forward hop, a click-to-call leg and a leg
\* without source.
OrderingLegs ==
    {[Leg("101", "102", "PJSIP/101-1", "PJSIP/102-1", "ANSWERED", 1, "from-internal", None)
         EXCEPT !.timestamp = "t1"],
     [Leg("0601", "101", "SIP/trunk-1", "PJSIP/101-1", "NO ANSWER", 0, "from-trunk", None)
         EXCEPT !.timestamp = "t2"],
     [Leg("102", "103", "Local/0102@x-1;2", "PJSIP/103-1", "ANSWERED", 1, "from-internal", None)
         EXCEPT !.timestamp = "t3"],
     [Leg("101", "102", "PJSIP/101-1", "", "ANSWERED", 1, "from-trunk", MarkedName)
         EXCEPT !.timestamp = "t4"],
     [Leg("", "102", "", "", "ANSWERED", 1, "from-trunk", None)
         EXCEPT !.timestamp = "t5"]}

\* Legs that seed a path differently and take or not the suffix: a trunk leg
\* whose raw and resolved destinations agree, an answered and an unanswered
\* ring-group leg (raw destination the group, resolved destination a member),
\* a leg whose raw destination is its own source, a leg whose decoded source
\* differs from its raw source and whose destination channel is Local, a leg
\* without channels and an answered Local-to-Local bridge leg.
\* <<src, dst, channel, dstchannel, disposition, context>>
SeedKinds ==
    {<<"0601", "101", "SIP/trunk-1", "PJSIP/101-1", "ANSWERED", "from-trunk">>,
     <<"0601", "600", "SIP/trunk-1", "PJSIP/102-1", "ANSWERED", "ext-group">>,
     <<"0601", "600", "SIP/trunk-1", "PJSIP/102-1", "NO ANSWER", "ext-group">>,
     <<"101", "101", "PJSIP/101-1", "PJSIP/102-1", "ANSWERED", "from-internal">>,
     <<"0601", "102", "PJSIP/101-1", "Local/103@x-1;1", "NO ANSWER", "from-trunk">>,
     <<"0601", "101", "", "", "BUSY", "from-trunk">>,
     <<"101", "102", "Local/101@x-1;2", "Local/102@x-1;1", "ANSWERED", "from-internal">>}

SeedLegs == {Leg(k[1], k[2], k[3], k[4], k[5], 1, k[6], None) : k \in SeedKinds}

\* Legs that set forward-to and legs that decide the status: an answered
\* follow-me check and its from-internal match on a Local/ channel, the same
\* on a Local/0 channel (a forward leg), an answered forward hop and a leg of
\* the reference number.  <<src, dst, channel, dstchannel, disposition, context>>
ForwardStatusKinds ==
    {<<"0777", "101", "SIP/trunk-1", "Local/102@x-1;1", "ANSWERED", "followme-check">>,
     <<"101", "102", "Local/102@x-1;2", "PJSIP/102-1", "NO ANSWER", "from-internal">>,
     <<"0777", "101", "SIP/trunk-1", "Local/0102@x-1;1", "ANSWERED", "followme-check">>,
     <<"101", "102", "Local/0102@x-1;2", "PJSIP/102-1", "NO ANSWER", "from-internal">>,
     <<"101", "102", "Local/0102@x-1;2", "PJSIP/103-1", "ANSWERED", "from-internal">>,
     <<"0601", "101", "SIP/trunk-1", "PJSIP/101-1", "NO ANSWER", "from-trunk">>}

ForwardStatusLegs == {Leg(k[1], k[2], k[3], k[4], k[5], 1, k[6], None) : k \in ForwardStatusKinds}

\* General mode and single-reference mode.
ForwardStatusModes == {NoReferenceNumbers, ReferenceNumbers(<<ReferenceNumber>>)}

\* Rows of a batch: a well-formed leg, one without destination, one without
\* channel and a click-to-call leg without source, in either correlation group.
BatchRows ==
    {[l EXCEPT !.linkedid = id] :
        l \in {Leg("101", "102", "PJSIP/101-1", "PJSIP/102-1", "ANSWERED", 1, "from-internal", None),
               Leg("101", "", "PJSIP/101-1", "", "NO ANSWER", 0, "from-internal", None),
               Leg("0601", "102", None, "PJSIP/102-1", "ANSWERED", 1, "from-trunk", None),
               Leg(None, "102", "", "", "ANSWERED", 1, "from-trunk", MarkedName)},
        id \in {LinkedIds[k] : k \in 1..Len(LinkedIds)}}

\* The batches of at most MaxRows rows; row i has sequence number i.
Batches ==
    UNION {{[i \in 1..n |-> [f[i] EXCEPT !.sequence = i]] : f \in [1..n -> BatchRows]}
           : n \in 0..MaxRows}

NotRun == [kind |-> "NotRun"]

\* A CallAnalyzer built with refs, about to analyse one group of universe U.
InitCall(U, Refs, max) ==
    /\ internal_numbers = InternalNumbers
    /\ reference_numbers \in Refs
    /\ events \in LegLists(U, max)
    /\ ret = NotRun
    /\ df = <<>>
    /\ todo = <<>>
    /\ calls = <<>>
    /\ pc = "call"

\* A CallAnalyzer about to process a batch.
InitBatch ==
    /\ internal_numbers = InternalNumbers
    /\ reference_numbers = NoReferenceNumbers
    /\ events = <<>>
    /\ ret = NotRun
    /\ df \in Batches
    /\ todo = GroupKeys(df)
    /\ calls = <<>>
    /\ pc = "batch"

\* Either use of the analyzer, over the legs that decide whether a Call is built.
Init == InitCall(BuildLegs, GeneralModes, MaxLegs) \/ InitBatch

\* The same, over the legs of each resolver.
InitStatus == InitCall(StatusLegs, GeneralModes, MaxLegs) \/ InitBatch
InitDuration == InitCall(DurationLegs, GeneralModes, MaxPolicyLegs) \/ InitBatch
InitReferenceDuration ==
    InitCall(ReferenceDurationLegs, {ReferenceNumbers(<<ReferenceNumber>>)}, MaxLegs) \/ InitBatch
InitReferenceStatus ==
    InitCall(ReferenceStatusLegs, {ReferenceNumbers(<<ReferenceNumber>>)}, MaxLegs) \/ InitBatch
InitDirection == InitCall(DirectionLegs, DirectionModes, MaxLegs) \/ InitBatch
InitScenario == InitCall(ScenarioLegs, GeneralModes, MaxLegs) \/ InitBatch
InitClickToCall == InitCall(ClickToCallLegs, {NoReferenceNumbers}, MaxLegs) \/ InitBatch
InitPath == InitCall(PathLegs, {NoReferenceNumbers}, MaxPolicyLegs) \/ InitBatch
InitDecoder == InitCall(DecoderLegs, {NoReferenceNumbers}, MaxLegs) \/ InitBatch
InitOrdering ==
    \/ /\ internal_numbers = InternalNumbers
       /\ reference_numbers = NoReferenceNumbers
       /\ events \in NumberedLegLists(OrderingLegs, MaxLegs)
       /\ ret = NotRun
       /\ df = <<>>
       /\ todo = <<>>
       /\ calls = <<>>
       /\ pc = "call"
    \/ InitBatch
InitSeed == InitCall(SeedLegs, {NoReferenceNumbers}, MaxLegs) \/ InitBatch
InitForwardStatus == InitCall(ForwardStatusLegs, ForwardStatusModes, MaxLegs) \/ InitBatch
InitClickToCallForward ==
    InitCall(ClickToCallForwardLegs, {NoReferenceNumbers}, MaxPolicyLegs) \/ InitBatch
\* Groups of every duration policy: general, single-reference and click-to-call.
InitDurationBound ==
    \/ InitClickToCallForward
    \/ InitDuration
    \/ InitCall(ReferenceBoundLegs, {ReferenceNumbers(<<ReferenceNumber>>)}, MaxLegs)

----------------------------------------------------------------------------
(* Operations *)

\* analyze_call sorting the caller's list in place (events.sort).
AnalyzeCallSortingInPlace ==
    /\ pc = "call"
    /\ ret' = analyze_call(events)
    /\ events' = SortBySequence(events)
    /\ pc' = IF ret'.kind = "Raise" THEN "raised" ELSE "done"
    /\ UNCHANGED <<internal_numbers, reference_numbers, df, todo, calls>>

\* A direct call of analyze_call on events.
AnalyzeCall ==
    /\ pc = "call"
    /\ ret' = analyze_call(events)
    /\ pc' = IF ret'.kind = "Raise" THEN "raised" ELSE "done"
    /\ UNCHANGED <<internal_numbers, reference_numbers, events, df, todo, calls>>

\* One iteration of the loop of process_dataframe (lines 498-526): nothing
\* catches what analyze_call raises.
ProcessGroup ==
    /\ pc = "batch"
    /\ todo # <<>>
    /\ events' = GroupEvents(df, Head(todo))
    /\ ret' = analyze_call(events')
    /\ calls' = IF ret'.kind = "Call" THEN Append(calls, ret') ELSE calls
    /\ todo' = Tail(todo)
    /\ pc' = IF ret'.kind = "Raise" THEN "raised" ELSE "batch"
    /\ UNCHANGED <<internal_numbers, reference_numbers, df>>

\* process_dataframe returns calls (line 495 for an empty frame, else line 528).
ReturnCalls ==
    /\ pc = "batch"
    /\ todo = <<>>
    /\ pc' = "done"
    /\ UNCHANGED <<internal_numbers, reference_numbers, events, ret, df, todo, calls>>

Next == AnalyzeCall \/ ProcessGroup \/ ReturnCalls

Spec == Init /\ [][Next]_vars
SpecStatus == InitStatus /\ [][Next]_vars
SpecDuration == InitDuration /\ [][Next]_vars
SpecReferenceDuration == InitReferenceDuration /\ [][Next]_vars
SpecReferenceStatus == InitReferenceStatus /\ [][Next]_vars
SpecDirection == InitDirection /\ [][Next]_vars
SpecScenario == InitScenario /\ [][Next]_vars
SpecClickToCall == InitClickToCall /\ [][Next]_vars
SpecPath == InitPath /\ [][Next]_vars
SpecDecoder == InitDecoder /\ [][Next]_vars
SpecOrdering == InitOrdering /\ [][Next]_vars
SpecSeed == InitSeed /\ [][Next]_vars
SpecForwardStatus == InitForwardStatus /\ [][Next]_vars
SpecDurationBound == InitDurationBound /\ [][Next]_vars
SpecClickToCallForward == InitClickToCallForward /\ [][Next]_vars

----------------------------------------------------------------------------
(* Properties *)

\* The legs of events in sequence order, and the first of them.
Sorted == SortBySequence(events)
FirstLeg == Sorted[1]

\* analyze_call has run on events.
Analysed == ret.kind # "NotRun"

\* sum of billsec over the legs of events at the positions I
RECURSIVE SumOver(_)
SumOver(I) ==
    IF I = {} THEN 0
    ELSE With(CHOOSE i \in I : TRUE, LAMBDA i : events[i].billsec + SumOver(I \ {i}))

AllLegs == 1..Len(events)

\* C1: analyze_call returns one Call or no Call; it returns no Call exactly
\* when the group is empty, or the click-to-call short-circuit built no Call and
\* the first leg in sequence order lacks its raw source or raw destination;
\* every other group yields a Call with the first leg's correlation id.
C1_OneCallOrRejected ==
    Analysed =>
        /\ ret.kind \in {"Call", "None"}
        /\ (ret.kind = "None") <=>
              \/ events = <<>>
              \/ /\ ~(ret.kind = "Call" /\ ret.is_click_to_call)
                 /\ ~Truthy(FirstLeg.src) \/ ~Truthy(FirstLeg.dst)
        /\ ret.kind = "Call" => ret.uniqueid = FirstLeg.linkedid

\* A leg that lacks its source, destination or channel.
MalformedLeg(e) == e.src = None \/ e.dst = None \/ e.channel = None
Malformed(evs) == \E i \in 1..Len(evs) : MalformedLeg(evs[i])

\* The Calls of the groups ids that are not malformed, in order.
RECURSIVE CallsOfOthers(_)
CallsOfOthers(ids) ==
    IF ids = <<>> THEN <<>>
    ELSE With(GroupEvents(df, Head(ids)), LAMBDA group :
         With(IF Malformed(group) THEN NoCall ELSE analyze_call(group), LAMBDA call :
              (IF call.kind = "Call" THEN <<call>> ELSE <<>>) \o CallsOfOthers(Tail(ids))))

\* C2: in process_dataframe a malformed group yields no Call and does not
\* abort the batch: the batch ends normally with exactly the Calls of the other
\* groups.
C2_MalformedGroupIsSkipped ==
    df # <<>> =>
        /\ pc # "raised"
        /\ pc = "done" => calls = CallsOfOthers(GroupKeys(df))

\* The named dispositions, highest priority first; FAILED is the default.
Priority == <<"ANSWERED", "BUSY", "CONGESTION", "NO ANSWER">>
Dispositions == {events[i].disposition : i \in AllLegs}
Ranked == {k \in 1..Len(Priority) : Priority[k] \in Dispositions}
HighestPriority == IF Ranked = {} THEN "FAILED" ELSE Priority[Min(Ranked)]

\* C3: in general mode the status of a Call is the highest-priority
\* disposition among its legs under ANSWERED > BUSY > CONGESTION > NO ANSWER,
\* whatever the order of the legs; a disposition outside the named ones never
\* decides, and the status is FAILED when none of the four occurs.
C3_GeneralStatusIsHighestPriority ==
    (ret.kind = "Call" /\ ~SingleReferenceMode) => ret.status = HighestPriority

\* An unnamed disposition ahead of a BUSY leg: the status is BUSY.
C3_Witness ==
    /\ ret.kind = "Call" /\ ~SingleReferenceMode /\ Len(events) = 2
    /\ FirstLeg.disposition = "UNANSWERED"
    /\ "BUSY" \in Dispositions
    /\ ret.status = "BUSY"

\* The forward legs and the ring-group broadcast legs of events.
ForwardPositions == {i \in AllLegs : ForwardLeg(events[i])}
GroupPositions == {i \in AllLegs : GroupLeg(events[i])}

\* The duration the general-mode policies give: forward, else group, else all.
PolicyDuration ==
    IF ForwardPositions # {} THEN SumOver(ForwardPositions)
    ELSE IF GroupPositions # {} THEN SumOver(AllLegs \ GroupPositions)
    ELSE SumOver(AllLegs)

\* C4: in general mode the duration of a standard Call is the sum of billsec
\* over the forward legs if there is one (even in a group call), else over the
\* legs that are not ring-group broadcast legs if there is one, else over all.
C4_GeneralDurationPolicy ==
    (ret.kind = "Call" /\ ~ret.is_click_to_call /\ ~SingleReferenceMode)
        => ret.duration = PolicyDuration

\* A call that is forwarded and a group call, where the forward legs' sum is
\* not the sum the group policy would give.
C4_Witness ==
    /\ ret.kind = "Call" /\ ~ret.is_click_to_call /\ ~SingleReferenceMode
    /\ ForwardPositions # {} /\ GroupPositions # {}
    /\ ret.duration = SumOver(ForwardPositions)
    /\ ret.duration # SumOver(AllLegs \ GroupPositions)

\* C5: a standard Call under the default policy (general mode, no forward
\* leg, no ring-group broadcast leg) has the sum of all its legs' billsec as
\* duration; the duration of an empty leg list is 0.
C5_DefaultDurationIsSum ==
    /\ (/\ ret.kind = "Call" /\ ~ret.is_click_to_call /\ ~SingleReferenceMode
        /\ ForwardPositions = {} /\ GroupPositions = {})
           => ret.duration = SumOver(AllLegs)
    /\ _get_call_billsec(<<>>) = Ok(0)

\* Two default-policy legs that both carry billsec: the duration is their sum.
C5_Witness ==
    /\ ret.kind = "Call" /\ ~ret.is_click_to_call /\ ~SingleReferenceMode
    /\ ForwardPositions = {} /\ GroupPositions = {}
    /\ Len(events) = 2 /\ events[1].billsec > 0 /\ events[2].billsec > 0
    /\ ret.duration = events[1].billsec + events[2].billsec

\* The resolved source of a leg: decoded origin channel, else raw src.
ResolvedSource(e) == OrElse(_extract_number_from_channel(e.channel), e.src)

\* The resolved destination a duration is matched on: the raw dst when the
\* destination channel contains "Local/0", else the decoded destination channel
\* with the raw dst as fallback.
DurationDestination(e) ==
    IF Truthy(e.dstchannel) /\ Contains(e.dstchannel, "Local/0") THEN e.dst
    ELSE OrElse(_extract_number_from_channel(e.dstchannel), e.dst)

\* The legs whose resolved source or destination is the reference number.
DurationMatches ==
    {i \in AllLegs : \/ InReferenceNumbers(ResolvedSource(events[i]))
                     \/ InReferenceNumbers(DurationDestination(events[i]))}

\* C6: with exactly one reference number the duration of a standard Call is
\* the sum of all legs' billsec when the call is forwarded and a group call, and
\* otherwise the sum over the legs whose resolved source or resolved destination
\* is the reference number, each such leg counted once.
C6_ReferenceDuration ==
    (ret.kind = "Call" /\ ~ret.is_click_to_call /\ SingleReferenceMode)
        => ret.duration = IF ForwardPositions # {} /\ GroupPositions # {}
                          THEN SumOver(AllLegs)
                          ELSE SumOver(DurationMatches)

\* A destination channel with "Local/0" that names the reference number on a
\* leg whose raw dst does not: the leg is left out, the other leg is counted.
C6_Witness ==
    /\ ret.kind = "Call" /\ ~ret.is_click_to_call /\ SingleReferenceMode
    /\ Len(events) = 2
    /\ DurationMatches = {1}
    /\ Contains(events[2].dstchannel, "Local/0")
    /\ _extract_number_from_channel(events[2].dstchannel) = ReferenceNumber
    /\ events[2].billsec > 0
    /\ ret.duration = events[1].billsec

\* The resolved destination a status is matched on.
StatusDestination(e) == OrElse(_extract_number_from_channel(e.dstchannel), e.dst)

\* The positions, in sequence order, of the legs that involve the reference
\* number.
StatusMatches ==
    {i \in AllLegs : \/ InReferenceNumbers(ResolvedSource(Sorted[i]))
                     \/ InReferenceNumbers(StatusDestination(Sorted[i]))}

Max(S) == CHOOSE x \in S : \A y \in S : y <= x

\* C7: with exactly one reference number the status of a forwarded call is
\* ANSWERED iff some leg's disposition is ANSWERED, else NO ANSWER; that of a
\* call not forwarded is ANSWERED if a leg involving the reference number is
\* ANSWERED, else the disposition of the last such leg, else NO ANSWER.
C7_ReferenceStatus ==
    (ret.kind = "Call" /\ SingleReferenceMode)
        => ret.status =
              IF ForwardPositions # {}
              THEN IF "ANSWERED" \in Dispositions THEN "ANSWERED" ELSE "NO ANSWER"
              ELSE IF \E i \in StatusMatches : Sorted[i].disposition = "ANSWERED"
                   THEN "ANSWERED"
              ELSE IF StatusMatches # {} THEN Sorted[Max(StatusMatches)].disposition
              ELSE "NO ANSWER"

\* The Call's canonical endpoints are both internal.
CallIsInternal ==
    ret.source \in internal_numbers /\ ret.destination \in internal_numbers

\* The direction the rules give a Call.
RuleDirection ==
    IF CallIsInternal
    THEN IF InReferenceNumbers(FirstLeg.src) THEN "sortant"
         ELSE IF InReferenceNumbers(FirstLeg.dst) THEN "entrant"
         ELSE "interne"
    ELSE IF \E i \in AllLegs : events[i].channel # None /\ Contains(events[i].channel, "trunk")
         THEN "entrant"
    ELSE IF \E i \in AllLegs : events[i].dstchannel # None
                               /\ Contains(events[i].dstchannel, "trunk")
         THEN "sortant"
    ELSE "interne"

\* C8: an internal Call is sortant if the first leg's raw source is a
\* reference number, else entrant if its raw destination is one, else interne;
\* a Call that is not internal is entrant if a leg's origin channel contains
\* "trunk", else sortant if a destination channel does, else interne.  The
\* internal flag of a standard Call is true iff the first leg's raw source and
\* raw destination are both internal.
C8_Direction ==
    ret.kind = "Call" =>
        /\ ret.type = RuleDirection
        /\ ~ret.is_click_to_call =>
              ret.is_internal = (/\ FirstLeg.src \in internal_numbers
                                 /\ FirstLeg.dst \in internal_numbers)

\* A Call that is not internal with "trunk" in a destination channel ahead of
\* "trunk" in an origin channel: entrant.
C8_Witness ==
    /\ ret.kind = "Call" /\ ~CallIsInternal /\ Len(events) = 2
    /\ Contains(FirstLeg.dstchannel, "trunk") /\ ~Contains(FirstLeg.channel, "trunk")
    /\ \E i \in AllLegs : Contains(events[i].channel, "trunk")
    /\ ret.type = "entrant"

\* events is the one leg of scenario A, in general mode and without marker:
\* context from-trunk, external source, internal destination, ANSWERED, and
\* strings as channels.
ScenarioA ==
    /\ Analysed /\ ~SingleReferenceMode /\ Len(events) = 1
    /\ events[1].context = "from-trunk"
    /\ Truthy(events[1].src) /\ events[1].src \notin internal_numbers
    /\ events[1].dst \in internal_numbers
    /\ events[1].disposition = "ANSWERED"
    /\ ~HasMarker(events[1])

\* The Call of scenario A.
ScenarioACall ==
    /\ ret.kind = "Call"
    /\ ret.type = "entrant"
    /\ ret.status = "ANSWERED"
    /\ ret.duration = events[1].billsec
    /\ ret.final_path = events[1].src \o " --> " \o events[1].dst \o " (ANSWERED)"

\* C9 as stated: the one-leg group of scenario A yields a Call that is
\* entrant, ANSWERED, of duration billsec and of path
\* "<source> --> <destination> (ANSWERED)", whatever its two channel strings.
C9_ScenarioAnyChannels ==
    (ScenarioA /\ events[1].channel # None /\ events[1].dstchannel # None)
        => ScenarioACall

\* C9 as amended: the same, provided the origin channel contains "trunk" and
\* the endpoints the two channels resolve to are the raw source and the raw
\* destination.
C9_ScenarioTrunkChannel ==
    (/\ ScenarioA
     /\ events[1].channel # None /\ Contains(events[1].channel, "trunk")
     /\ SrcNumber(events[1]) = events[1].src
     /\ DstNumber(events[1]) = events[1].dst)
        => ScenarioACall

\* Scenario A over a trunk channel, with billsec to sum.
C9_Witness ==
    /\ ScenarioA /\ Contains(events[1].channel, "trunk")
    /\ events[1].dstchannel = "PJSIP/101-1" /\ events[1].billsec > 0
    /\ ScenarioACall

\* Some leg's caller name carries the click-to-call marker.
MarkerPresent == \E i \in AllLegs : HasMarker(events[i])

\* The dial leg: the first leg in sequence order marked macro-dial, else the
\* first leg.
DialLeg ==
    IF \E i \in AllLegs : MacroDialLeg(Sorted[i])
    THEN Sorted[Min({i \in AllLegs : MacroDialLeg(Sorted[i])})]
    ELSE FirstLeg

\* The source click-to-call selects.
SelectedSource ==
    IF \/ StartsWith(ResolvedSource(FirstLeg), "0")
       \/ StartsWith(ResolvedSource(FirstLeg), "+")
    THEN DialLeg.src
    ELSE ResolvedSource(FirstLeg)

\* The Call click-to-call builds.
ClickToCallBuilt ==
    /\ ret.is_click_to_call
    /\ ret.source = SelectedSource
    /\ ret.destination = FirstLeg.dst

\* C10 as stated: when a leg carries the marker, the Call has the selected
\* source (the dial leg's raw source if the first leg's resolved source starts
\* with "0" or "+", else that resolved source), the first leg's raw destination
\* and the click-to-call flag.
C10_MarkerSelectsSource ==
    (MarkerPresent /\ ret.kind = "Call") => ClickToCallBuilt

\* C10 as amended: the same, provided the selected source and the first leg's
\* raw destination are both non-empty.
C10_MarkerSelectsNonEmptySource ==
    (/\ MarkerPresent /\ ret.kind = "Call"
     /\ Truthy(SelectedSource) /\ Truthy(FirstLeg.dst))
        => ClickToCallBuilt

\* Scenario D: the first leg's source starts with "0" and a later macro-dial
\* leg has another source, which the Call takes.
C10_Witness ==
    /\ MarkerPresent /\ ret.kind = "Call" /\ Len(events) = 2
    /\ StartsWith(FirstLeg.src, "0")
    /\ ~MacroDialLeg(FirstLeg)
    /\ DialLeg.src = "101"
    /\ ret.source = "101" /\ ret.is_click_to_call

\* The positions, in sequence order, of the forward legs.
SortedForwardPositions == {i \in AllLegs : ForwardLeg(Sorted[i])}

\* The raw destinations of the legs of Sorted at the positions I, in order.
RECURSIVE DestinationsAt(_)
DestinationsAt(I) ==
    IF I = {} THEN <<>>
    ELSE With(Min(I), LAMBDA i : <<Sorted[i].dst>> \o DestinationsAt(I \ {i}))

\* sum of billsec over the legs of Sorted at the positions I
RECURSIVE SortedSumOver(_)
SortedSumOver(I) ==
    IF I = {} THEN 0
    ELSE With(Min(I), LAMBDA i : Sorted[i].billsec + SortedSumOver(I \ {i}))

\* The hops of a path string: the text between its " --> " separators.
RECURSIVE Hops(_)
Hops(path) ==
    With({i \in 1..(Len(path) - 4) : SubSeq(path, i, i + 4) = " --> "}, LAMBDA at :
         IF at = {} THEN <<path>>
         ELSE <<SubSeq(path, 1, Min(at) - 1)>>
              \o Hops(SubSeq(path, Min(at) + 5, Len(path))))

\* C11: the duration of a click-to-call Call is the dial leg's billsec plus
\* the billsec of every forward leg, and its forward numbers (the hops between
\* source and destination) are the forward legs' raw destinations in sequence
\* order.
C11_ClickToCallDuration ==
    (ret.kind = "Call" /\ ret.is_click_to_call) =>
        /\ ret.duration = DialLeg.billsec + SortedSumOver(SortedForwardPositions)
        /\ Hops(ret.final_path)
              = <<ret.source>> \o DestinationsAt(SortedForwardPositions) \o <<ret.destination>>

\* A macro-dial leg and two forward legs to different numbers, all with billsec.
C11_Witness ==
    /\ ret.kind = "Call" /\ ret.is_click_to_call /\ Len(events) = 3
    /\ Cardinality(SortedForwardPositions) = 2
    /\ DialLeg # FirstLeg /\ DialLeg.billsec > 0
    /\ DestinationsAt(SortedForwardPositions) = <<"0601", "102">>
    /\ ret.duration = DialLeg.billsec + SortedSumOver(SortedForwardPositions)

\* C12: a click-to-call Call has as path exactly its source, the forward
\* numbers in order and its destination, joined by " --> ", a repeated hop
\* included; its transfer and forward fields are unset; and it is built before
\* the validation of the first leg's raw endpoints: whenever a leg carries the
\* marker and the selected source and the first leg's raw destination are
\* non-empty, analyze_call returns that Call, even if the first leg's raw source
\* is empty.
C12_ClickToCallPath ==
    /\ (ret.kind = "Call" /\ ret.is_click_to_call) =>
          /\ ret.final_path
                = Join(<<ret.source>> \o DestinationsAt(SortedForwardPositions)
                          \o <<ret.destination>>, " --> ")
          /\ ret.transfers_from = None /\ ret.transfers_to = None
          /\ ret.forwards_from = None /\ ret.forwards_to = None
    /\ (/\ Analysed /\ events # <<>> /\ MarkerPresent
        /\ Truthy(SelectedSource) /\ Truthy(FirstLeg.dst))
          => (ret.kind = "Call" /\ ret.is_click_to_call)

\* A hop without its " (ANSWERED)" suffix.
WithoutSuffix(hop) ==
    IF Len(hop) >= 11 /\ SubSeq(hop, Len(hop) - 10, Len(hop)) = " (ANSWERED)"
    THEN SubSeq(hop, 1, Len(hop) - 11)
    ELSE hop

\* No two consecutive hops of the path string are the same endpoint.
NoRepeatedHop(path) ==
    With(Hops(path), LAMBDA hops :
         \A i \in 1..(Len(hops) - 1) : WithoutSuffix(hops[i]) # WithoutSuffix(hops[i + 1]))

\* C13: in the path of every standard Call no two consecutive hops are equal
\* once the " (ANSWERED)" suffix is ignored.  The path only grows by appends, so
\* every path the reconstruction went through is a prefix of the final one.
C13_NoConsecutiveRepeat ==
    (ret.kind = "Call" /\ ~ret.is_click_to_call) => NoRepeatedHop(ret.final_path)

\* The same extension rung without answer and then answered: one hop.
C13_Witness ==
    /\ ret.kind = "Call" /\ ~ret.is_click_to_call /\ Len(events) = 2
    /\ Sorted[1].disposition = "NO ANSWER" /\ Sorted[2].disposition = "ANSWERED"
    /\ DstNumber(Sorted[1]) = DstNumber(Sorted[2])
    /\ ret.final_path = "0601 --> 101"

StandardCallBuilt == ret.kind = "Call" /\ ~ret.is_click_to_call

\* The accumulator of the second pass after its first k iterations.
RECURSIVE PassUpTo(_)
PassUpTo(k) == IF k = 0 THEN PathStart ELSE PathStep(Sorted, PassUpTo(k - 1), Sorted[k])

AnsweredForwardPositions ==
    {i \in SortedForwardPositions : Sorted[i].disposition = "ANSWERED"}

\* The answered follow-me check legs that have a matching from-internal leg.
FollowMePositions ==
    {i \in AllLegs : /\ Sorted[i].context = "followme-check" /\ IsLocal(Sorted[i])
                     /\ Sorted[i].disposition = "ANSWERED"
                     /\ FollowMeMatches(Sorted, SplitFirst(Sorted[i].dstchannel, ";")) # {}}

\* What the follow-me check leg at position i writes as forward target.
FollowMeTarget(i) ==
    With(Sorted[Min(FollowMeMatches(Sorted, SplitFirst(Sorted[i].dstchannel, ";")))],
         LAMBDA match : OrElse(_extract_number_from_channel(match.dstchannel), match.dst))

\* The parts of C14 on the virtual-forward marker, the duration and the status.
ForwardMarkerDurationStatus ==
    /\ \A k \in SortedForwardPositions :
          PassUpTo(k).virtual_forward = DstNumber(Sorted[k])
    /\ SortedForwardPositions # {} =>
          ret.duration = SortedSumOver(SortedForwardPositions)
    /\ AnsweredForwardPositions # {} => ret.status = "ANSWERED"

\* C14 as stated: forward-to is the resolved destination of the last ANSWERED
\* forward hop, and is unset when no forward hop is ANSWERED and no follow-me
\* match set it; the marker follows every forward hop, the duration is the sum
\* of the forward legs and the status is ANSWERED when one of them is.
C14_ForwardToLastAnsweredHop ==
    StandardCallBuilt =>
       /\ AnsweredForwardPositions # {} =>
             ret.forwards_to = DstNumber(Sorted[Max(AnsweredForwardPositions)])
       /\ (AnsweredForwardPositions = {} /\ FollowMePositions = {}) =>
             ret.forwards_to = None
       /\ ForwardMarkerDurationStatus

\* C14 amended: forward-to is what the last writer wrote, a writer being an
\* ANSWERED forward hop (its resolved destination) or an answered follow-me
\* check leg with a match (the match's decoded destination channel, else its
\* raw destination); it is unset when there is no writer.
C14_ForwardToLastWriter ==
    StandardCallBuilt =>
       /\ With(AnsweredForwardPositions \cup FollowMePositions, LAMBDA writers :
             ret.forwards_to
                = IF writers = {} THEN None
                  ELSE IF Max(writers) \in AnsweredForwardPositions
                       THEN DstNumber(Sorted[Max(writers)])
                       ELSE FollowMeTarget(Max(writers)))
       /\ ForwardMarkerDurationStatus

\* An answered forward hop to 103, then a follow-me check whose first match is
\* an earlier, unanswered hop to 102.
C14_Witness ==
    /\ StandardCallBuilt /\ Len(events) = 3
    /\ AnsweredForwardPositions = {2} /\ FollowMePositions = {3}
    /\ DstNumber(Sorted[2]) = "103" /\ ret.forwards_to = "102"
    /\ ret.duration = 2 /\ ret.status = "ANSWERED"

\* The ext-local legs whose raw destination differs from the resolved one.
TransferPositions ==
    {i \in AllLegs : Sorted[i].context = "ext-local" /\ Sorted[i].dst # DstNumber(Sorted[i])}

\* C15: the first ext-local leg whose raw destination differs from its resolved
\* destination, met while no transfer endpoint is set, sets transfer-to to its
\* resolved destination and transfer-from to its resolved source, and no later
\* leg overwrites them.
C15_InternalTransfer ==
    (/\ StandardCallBuilt /\ TransferPositions # {}
     /\ ~Truthy(PassUpTo(Min(TransferPositions) - 1).transfers_to)
     /\ ~Truthy(PassUpTo(Min(TransferPositions) - 1).transfers_from))
       => /\ ret.transfers_to = DstNumber(Sorted[Min(TransferPositions)])
          /\ ret.transfers_from = SrcNumber(Sorted[Min(TransferPositions)])

\* The origin and destination channel strings of the legs.
ChannelsOfLegs ==
    {events[i].channel : i \in AllLegs} \cup {events[i].dstchannel : i \in AllLegs}

\* What the technology rule TECH/<digits>- captures in a channel string.
TechCaptures(channel) ==
    {SearchTechDigits(tech, channel) : tech \in {"PJSIP", "SIP", "IAX2"}} \ {None}

\* C16: the technology rule is tried before the Local rule, so a channel string
\* holding both a SIP/ or IAX2/ digits pattern and a Local/<id>@ pattern decodes
\* to the technology rule's digits.
C16_TechnologyRuleFirst ==
    Analysed => \A channel \in ChannelsOfLegs \ {None} :
       (/\ SearchLocal(channel) # None
        /\ \/ SearchTechDigits("SIP", channel) # None
           \/ SearchTechDigits("IAX2", channel) # None)
          => \E digits \in TechCaptures(channel) :
                _extract_number_from_channel(channel) = LStrip(digits, "9")

\* What the first matching pattern captures, before any "9" is removed.
RECURSIVE CaptureFrom(_, _)
CaptureFrom(k, channel) ==
    IF k > Len(patterns) THEN None
    ELSE With(PatternSearch(patterns[k], channel), LAMBDA match :
              IF match # None THEN match ELSE CaptureFrom(k + 1, channel))

\* s less one leading "9", if it has one.
WithoutOneNine(s) == IF StartsWith(s, "9") THEN Slice(s, 2, Len(s)) ELSE s

\* C17: exactly one leading "9" is removed from the captured value: a capture
\* "9901" decodes to "901", a capture without leading "9" is returned unchanged.
C17_OneLeadingNineRemoved ==
    Analysed => \A channel \in ChannelsOfLegs \ {None, ""} :
       CaptureFrom(1, channel) # None =>
          _extract_number_from_channel(channel) = WithoutOneNine(CaptureFrom(1, channel))

\* C18: an empty, absent or unrecognized channel string decodes to no match and
\* is never fatal: analyze_call returns a result for the group.
C18_ChannelNeverFatal ==
    /\ \A channel \in ChannelsOfLegs :
          (channel \in {None, ""} \/ CaptureFrom(1, channel) = None)
             => _extract_number_from_channel(channel) = None
    /\ Analysed => ret.kind \in {"Call", "None"}

\* The permutations of 1..n, as functions.
OrdersOf(n) ==
    {p \in [1..n -> 1..n] : \A i, j \in 1..n : i # j => p[i] # p[j]}

\* The legs of events in the order p.
Permuted(p) == [i \in 1..Len(events) |-> events[p[i]]]

DistinctSequences ==
    \A i, j \in AllLegs : i # j => events[i].sequence # events[j].sequence

\* The list sorted is events in ascending sequence number, ties in input order.
StableSortOfEvents(sorted) ==
    \E p \in OrdersOf(Len(events)) :
       /\ sorted = Permuted(p)
       /\ \A i, j \in AllLegs :
             i < j => \/ events[p[i]].sequence < events[p[j]].sequence
                      \/ events[p[i]].sequence = events[p[j]].sequence /\ p[i] < p[j]

\* C19: the legs are processed in ascending sequence number, ties in input
\* order; with pairwise distinct sequence numbers the outcome of analyze_call is
\* the same for every permutation of the list, and the first leg, whose
\* timestamp and caller name the Call carries, is the one of smallest sequence
\* number.
C19_DeterministicOrdering ==
    Analysed =>
       /\ StableSortOfEvents(Sorted)
       /\ DistinctSequences =>
             /\ \A p \in OrdersOf(Len(events)) : analyze_call(Permuted(p)) = ret
             /\ \A i \in AllLegs :
                   (events[i].sequence = Min({events[j].sequence : j \in AllLegs})
                    /\ ret.kind = "Call")
                      => /\ FirstLeg = events[i]
                         /\ ret.start_time = events[i].timestamp
                         /\ ret.original_caller_name = events[i].cnam

\* Two different legs given in descending sequence order: the Call starts at
\* the second leg of the list.
C19_Witness ==
    /\ Analysed /\ Len(events) = 2 /\ ret.kind = "Call"
    /\ events[1].sequence > events[2].sequence
    /\ events[1].timestamp # events[2].timestamp
    /\ ret.start_time = events[2].timestamp
    /\ ret.source # events[1].src

\* process_dataframe has ended on a batch that holds rows.
BatchEnded == df # <<>> /\ pc \in {"done", "raised"}

\* The Calls of the groups of the batch, each analysed on its own.
CallsOfGroups ==
    {call \in {analyze_call(GroupEvents(df, LinkedIds[k])) : k \in 1..Len(LinkedIds)} :
        call.kind = "Call"}

\* C20: the batch driver analyses every correlation id of the batch once,
\* produces at most one Call per id, and the Calls it produces are those of
\* the groups analysed on their own, whatever the order of the groups.
C20_BatchIndependence ==
    BatchEnded =>
       /\ todo = <<>>
       /\ \A i, j \in 1..Len(calls) : i # j => calls[i].uniqueid # calls[j].uniqueid
       /\ {calls[i] : i \in 1..Len(calls)} = CallsOfGroups

\* C21: analyze_call leaves its inputs as they were: across every call, direct
\* or from the batch driver, whatever its outcome, the internal numbers, the
\* reference numbers and the leg list handed in (order, length and every field)
\* are unchanged.
C21_InputsReadOnly ==
    [][/\ pc = "call" =>
            /\ internal_numbers' = internal_numbers
            /\ reference_numbers' = reference_numbers
            /\ events' = events
       /\ (pc = "batch" /\ todo # <<>>) =>
            /\ internal_numbers' = internal_numbers
            /\ reference_numbers' = reference_numbers
            /\ df' = df
            /\ events' = GroupEvents(df, Head(todo))]_vars

\* A Call built from a list given out of sequence order: the list is still in
\* the order given.
C21_Witness ==
    /\ Analysed /\ ret.kind = "Call" /\ Len(events) = 2
    /\ events # Sorted
    /\ ret.start_time = Sorted[1].timestamp
    /\ ret.start_time # events[1].timestamp

\* Candidate hops offered to a path: a number or nothing, with a disposition.
CandidateNumbers == {None, "", "0601", "0102", "101", "102", "103"}
CandidateDispositions == {"ANSWERED", "NO ANSWER"}

\* The key under which a candidate is emitted.
KeyOf(number, disposition) ==
    IF disposition = "ANSWERED" THEN number \o " (ANSWERED)" ELSE number

PairwiseDistinct(seq) == \A i, j \in 1..Len(seq) : i # j => seq[i] # seq[j]

\* The four guards of an append, on the accumulator acc.
AppendGuards(acc, number, disposition) ==
    /\ number # None /\ number # ""
    /\ acc.path # <<>> => WithoutSuffix(acc.path[Len(acc.path)]) # number
    /\ KeyOf(number, disposition) \notin {acc.path[i] : i \in 1..Len(acc.path)}
    /\ number # acc.virtual_forward

\* The only guard that refuses the candidate on acc is the marker.
RefusedByMarkerOnly(acc, number, disposition) ==
    /\ number # None /\ number # ""
    /\ acc.path # <<>> /\ WithoutSuffix(acc.path[Len(acc.path)]) # number
    /\ KeyOf(number, disposition) \notin {acc.path[i] : i \in 1..Len(acc.path)}
    /\ number = acc.virtual_forward
    /\ add_to_path(acc, number, disposition) = acc

\* C22: a candidate hop is appended only if it is non-empty, its number differs
\* from the last hop's, its key was not emitted before and its number differs
\* from the virtual-forward marker of the moment; the hops of the path are
\* pairwise distinct and the emitted keys are exactly the hops of the path, at
\* every point of the reconstruction and in the final path.
C22_PathAppendGuards ==
    StandardCallBuilt =>
       /\ \A k \in 0..Len(events) :
             With(PassUpTo(k), LAMBDA acc :
                /\ PairwiseDistinct(acc.path)
                /\ acc.seen_path_keys = {acc.path[i] : i \in 1..Len(acc.path)}
                /\ \A number \in CandidateNumbers, disposition \in CandidateDispositions :
                      With(add_to_path(acc, number, disposition), LAMBDA next :
                         IF next = acc THEN TRUE
                         ELSE /\ AppendGuards(acc, number, disposition)
                              /\ next.path = Append(acc.path, KeyOf(number, disposition))
                              /\ next.seen_path_keys
                                    = acc.seen_path_keys \cup {KeyOf(number, disposition)}))
       /\ PairwiseDistinct(Hops(ret.final_path))

\* After an unanswered forward hop to 102 and an answered leg to 101, the
\* candidate "102 (ANSWERED)" is refused by the marker alone.
C22_Witness ==
    /\ StandardCallBuilt /\ Len(events) = 2
    /\ Len(Hops(ret.final_path)) = 3
    /\ RefusedByMarkerOnly(PassUpTo(2), "102", "ANSWERED")

\* The hops of the path of the Call.
PathHops == Hops(ret.final_path)

\* C23 as stated: the first hop of a standard Call is the first leg's resolved
\* source, and whenever the first leg's raw destination differs from its
\* resolved destination the raw destination is the second hop.
C23_SeedSourceThenRawDestination ==
    StandardCallBuilt =>
       /\ PathHops[1] = SrcNumber(FirstLeg)
       /\ FirstLeg.dst # DstNumber(FirstLeg) =>
             (Len(PathHops) >= 2 /\ PathHops[2] = FirstLeg.dst)

\* C23 amended: the raw destination is the second hop unless it is the number
\* of the first hop; then it is not emitted and the second hop, like the second
\* hop of a leg whose raw and resolved destinations agree, comes from the
\* resolved destination.
C23_SeedUnlessSameAsSource ==
    StandardCallBuilt =>
       /\ PathHops[1] = SrcNumber(FirstLeg)
       /\ (FirstLeg.dst # DstNumber(FirstLeg) /\ FirstLeg.dst # SrcNumber(FirstLeg)) =>
             (Len(PathHops) >= 2 /\ PathHops[2] = FirstLeg.dst)
       /\ (FirstLeg.dst # DstNumber(FirstLeg) /\ FirstLeg.dst = SrcNumber(FirstLeg)) =>
             (Len(PathHops) >= 2
              /\ PathHops[2] = KeyOf(DstNumber(FirstLeg), FirstLeg.disposition))

\* A first leg from 101 to its own number, resolved to 102: "101 --> 102 ...".
C23_Witness ==
    /\ StandardCallBuilt
    /\ SrcNumber(FirstLeg) = "101" /\ FirstLeg.dst = "101" /\ DstNumber(FirstLeg) = "102"
    /\ PathHops[1] = "101" /\ PathHops[2] = "102 (ANSWERED)"
    /\ Len(events) = 2 /\ Len(PathHops) = 3

HasSuffix(hop) == WithoutSuffix(hop) # hop

\* A Local-to-Local bridge leg: origin and destination channels both Local/.
LocalBridge(e) ==
    /\ Truthy(e.channel) /\ Contains(e.channel, "Local/")
    /\ Truthy(e.dstchannel) /\ Contains(e.dstchannel, "Local/")

\* The accumulator of the second pass at leg k, after the seed and before the
\* append of the leg's resolved destination.
SeededAt(k) ==
    SeedPath(PassUpTo(k - 1), Sorted[k], SrcNumber(Sorted[k]), DstNumber(Sorted[k]))

\* The same after that append.
AppendedAt(k) ==
    AppendDestination(SeededAt(k), Sorted[k], SrcNumber(Sorted[k]), DstNumber(Sorted[k]))

\* C24: the hop appended for a leg carries the " (ANSWERED)" suffix exactly
\* when the leg is ANSWERED and is not a Local-to-Local bridge: no suffix for an
\* ANSWERED bridge leg, none for any other disposition.
C24_SuffixUnlessLocalBridge ==
    StandardCallBuilt =>
       \A k \in AllLegs :
          AppendedAt(k).path # SeededAt(k).path =>
             (HasSuffix(LastInPath(AppendedAt(k).path))
                <=> (Sorted[k].disposition = "ANSWERED" /\ ~LocalBridge(Sorted[k])))

\* C26: the resolved destination of an ext-group leg that is a member of the
\* ring group and did not answer is not in the path of the Call, unless a leg
\* of another context leads to the same number.
C26_UnansweredMemberNotInPath ==
    StandardCallBuilt =>
       \A k \in AllLegs :
          (/\ Sorted[k].context = "ext-group"
           /\ Sorted[k].disposition # "ANSWERED"
           /\ DstNumber(Sorted[k]) \in GroupMembers(Sorted, Sorted[k].dst)
           /\ \A j \in AllLegs :
                 Sorted[j].context # "ext-group" =>
                    DstNumber(Sorted[k]) \notin
                       {SrcNumber(Sorted[j]), DstNumber(Sorted[j]), Sorted[j].dst})
             => \A i \in 1..Len(PathHops) : WithoutSuffix(PathHops[i]) # DstNumber(Sorted[k])

\* C25: in every Call, standard or click-to-call, forward-from is unset, also
\* when forward-to is set.
C25_ForwardFromUnset ==
    ret.kind = "Call" => ret.forwards_from = None

\* A standard Call with an answered forward hop: forward-to set, forward-from not.
C25_Witness ==
    /\ StandardCallBuilt /\ AnsweredForwardPositions # {}
    /\ Truthy(ret.forwards_to) /\ ret.forwards_from = None

\* C27 as stated: in general mode and in single-reference mode alike, a Call
\* with forward-to set has status ANSWERED.
C27_ForwardToImpliesAnswered ==
    (ret.kind = "Call" /\ ret.forwards_to # None) => ret.status = "ANSWERED"

\* C27 amended: a Call with forward-to set has an ANSWERED leg; its status is
\* ANSWERED in general mode, and in single-reference mode when the group holds
\* a forward leg or an ANSWERED leg of the reference number.
C27_ForwardToAnsweredUnlessReferenceScan ==
    (ret.kind = "Call" /\ ret.forwards_to # None) =>
       /\ \E i \in AllLegs : events[i].disposition = "ANSWERED"
       /\ (\/ ~SingleReferenceMode
           \/ SortedForwardPositions # {}
           \/ \E i \in AllLegs : events[i].disposition = "ANSWERED" /\ StatusRefLeg(events[i]))
             => ret.status = "ANSWERED"

\* Single-reference mode, forward-to set by a follow-me check whose match is an
\* unanswered forward leg: ANSWERED.
C27_Witness ==
    /\ ret.kind = "Call" /\ SingleReferenceMode /\ Len(events) = 2
    /\ FollowMePositions # {} /\ AnsweredForwardPositions = {}
    /\ SortedForwardPositions # {}
    /\ ret.forwards_to = "102" /\ ret.status = "ANSWERED"

\* The positions, in sequence order, of the legs the duration counts in
\* single-reference mode.
CountedPositions ==
    {i \in AllLegs : \/ InReferenceNumbers(ResolvedSource(Sorted[i]))
                     \/ InReferenceNumbers(DurationDestination(Sorted[i]))}

\* The leg whose disposition makes the status ANSWERED: the first ANSWERED leg
\* of the reference number.
AnsweredMatches == {i \in StatusMatches : Sorted[i].disposition = "ANSWERED"}

\* A leg whose destination channel contains "Local/0".
LocalZeroDestination(e) == Truthy(e.dstchannel) /\ Contains(e.dstchannel, "Local/0")

ReferenceCallNotForwarded ==
    ret.kind = "Call" /\ SingleReferenceMode /\ SortedForwardPositions = {}

\* C28 as stated: in single-reference mode, for a call that is not forwarded,
\* every leg the status adopts is counted in the duration, so a call ANSWERED
\* because of a leg with billsec n has a duration of at least n.
C28_StatusLegsAreCounted ==
    ReferenceCallNotForwarded =>
       /\ StatusMatches \subseteq CountedPositions
       /\ AnsweredMatches # {} =>
             (ret.status = "ANSWERED"
              /\ ret.duration >= Sorted[Min(AnsweredMatches)].billsec)

\* C28 amended: for a standard Call this holds of the legs whose destination
\* channel does not contain "Local/0"; a leg adopted through the number decoded
\* from a "Local/0" destination channel is counted only if its resolved source
\* or raw destination is the reference number.
C28_StatusLegsCountedUnlessLocalZero ==
    (ReferenceCallNotForwarded /\ ~ret.is_click_to_call) =>
       /\ \A i \in StatusMatches :
             ~LocalZeroDestination(Sorted[i]) => i \in CountedPositions
       /\ \A i \in StatusMatches :
             (/\ LocalZeroDestination(Sorted[i])
              /\ ~InReferenceNumbers(ResolvedSource(Sorted[i]))
              /\ ~InReferenceNumbers(Sorted[i].dst)) => i \notin CountedPositions
       /\ ret.duration = SortedSumOver(CountedPositions)
       /\ AnsweredMatches # {} =>
             /\ ret.status = "ANSWERED"
             /\ Min(AnsweredMatches) \in CountedPositions =>
                   ret.duration >= Sorted[Min(AnsweredMatches)].billsec

\* A leg of the reference number, answered with billsec, counted; and a leg
\* adopted through a "Local/0" destination channel, not counted.
C28_Witness ==
    /\ ReferenceCallNotForwarded /\ ~ret.is_click_to_call /\ Len(events) = 2
    /\ StatusMatches = {1, 2} /\ CountedPositions = {1}
    /\ LocalZeroDestination(Sorted[2]) /\ Sorted[2].billsec > 0
    /\ Sorted[1].billsec > 0
    /\ ret.status = "ANSWERED" /\ ret.duration = Sorted[1].billsec

\* The dial leg of a click-to-call group is itself a forward leg.
DialLegIsForwardLeg == ForwardLeg(DialLeg)

\* C29 as stated: the duration of every Call, click-to-call included, lies
\* between 0 and the sum of the billsec of all the legs of its group.
C29_DurationWithinSum ==
    ret.kind = "Call" => (0 <= ret.duration /\ ret.duration <= SumOver(AllLegs))

\* C29 amended: that holds of every standard Call and of a click-to-call Call
\* whose dial leg is not a forward leg; when the dial leg is a forward leg its
\* billsec is counted twice, and the duration is at most the sum plus that
\* billsec.
C29_DurationWithinSumUnlessDialForwarded ==
    ret.kind = "Call" =>
       /\ 0 <= ret.duration
       /\ (~ret.is_click_to_call \/ ~DialLegIsForwardLeg) =>
             ret.duration <= SumOver(AllLegs)
       /\ (ret.is_click_to_call /\ DialLegIsForwardLeg) =>
             /\ ret.duration = DialLeg.billsec + SortedSumOver(SortedForwardPositions)
             /\ ret.duration <= SumOver(AllLegs) + DialLeg.billsec

\* A click-to-call Call of three legs: the dial leg and a forward leg are
\* counted once each, the plain leg is not.
C29_Witness ==
    /\ ret.kind = "Call" /\ ret.is_click_to_call /\ Len(events) = 3
    /\ ~DialLegIsForwardLeg /\ DialLeg.billsec > 0
    /\ Cardinality(SortedForwardPositions) = 1
    /\ ret.duration = SumOver(AllLegs) - MaxBillsec

\* C30 as stated: the click-to-call flag of a Call is true if and only if some
\* leg of its group carries the marker; a group with the marker is never built
\* through the standard path.
C30_FlagIffMarker ==
    ret.kind = "Call" => (ret.is_click_to_call <=> MarkerPresent)

\* C30 amended: the flag is true if and only if some leg carries the marker and
\* the selected source is non-empty; a group with the marker whose selected
\* source is empty is built through the standard path, with the first leg's raw
\* endpoints and the flag false.
C30_FlagIffMarkerAndSource ==
    ret.kind = "Call" =>
       /\ ret.is_click_to_call <=> (MarkerPresent /\ Truthy(SelectedSource))
       /\ (MarkerPresent /\ ~Truthy(SelectedSource)) =>
             /\ ret.source = FirstLeg.src /\ ret.destination = FirstLeg.dst
             /\ ~SingleReferenceMode => ret.duration = PolicyDuration

\* A marked first leg from 0601 and a macro-dial leg without source: a standard
\* Call from 0601, flag false.
C30_Witness ==
    /\ ret.kind = "Call" /\ MarkerPresent /\ Len(events) = 2
    /\ HasMarker(FirstLeg) /\ FirstLeg.src = "0601"
    /\ DialLeg # FirstLeg /\ DialLeg.src = ""
    /\ ~ret.is_click_to_call /\ ret.source = "0601"

============================================================================
